---- MODULE Spec2Model ----
(***************************************************************************)
(* A model of simple_excel_writer: column addressing (sheet.rs), the       *)
(* shared-string table, and the workbook's sheet / archive bookkeeping     *)
(* (workbook.rs).  Text is modelled as sequences of one-character strings  *)
(* where the code looks at characters (escape_xml, column letters) and as  *)
(* TLA+ strings where the code only concatenates (paths, ids).             *)
(***************************************************************************)
EXTENDS Integers, Sequences, FiniteSets, TLC

VARIABLES
    column_index,   \* column_letter: the argument
    result,         \* column_letter: the letters, most significant first
    letters,        \* column_letter: the returned String ("" before the call)
    xlsx_file,        \* Workbook.xlsx_file: Some(path) or None
    archive_files,    \* Workbook.archive_files: sequence of [name, data]
    max_sheet_index,  \* Workbook.max_sheet_index
    shared_strings,   \* Workbook.shared_strings / a SharedStrings table
    sheets,           \* Workbook.sheets: sequence of SheetRef [id, name]
    calc_chain,       \* Workbook.calc_chain: sequence of <<formula, sheet id>>
    saved,            \* Workbook.saved
    dropped,          \* the Workbook has gone out of scope
    sheet,            \* the Sheet values the caller holds, by sheet id
    writer,           \* the output buffer of each sheet's SheetWriter
    sw,               \* the write_sheet call in progress, if any
    caller_row,       \* the Row a caller is building
    cell_formats,     \* Workbook.cell_formats
    hist              \* history of calls and their results (not program state)

letterVars == <<column_index, result, letters>>
wbVars == <<xlsx_file, archive_files, max_sheet_index, sheets, calc_chain, saved,
            dropped>>
vars == <<column_index, result, letters, xlsx_file, archive_files,
          max_sheet_index, shared_strings, sheets, calc_chain, saved, dropped,
          sheet, writer, sw, caller_row, cell_formats, hist>>

-----------------------------------------------------------------------------
(* Bounds of the model *)

MaxCol == 710
MaxOps == 3         \* calls made on one shared-string table
MaxCalls == 7       \* calls made on one workbook (closure steps included)

-----------------------------------------------------------------------------
(* Generic helpers *)

Range(s) == {s[i] : i \in 1..Len(s)}

Reverse(s) == [i \in 1..Len(s) |-> s[Len(s) + 1 - i]]

RECURSIVE from_iter(_)
\* String::from_iter over chars: the concatenation of the characters
from_iter(chars) ==
    IF chars = <<>> THEN "" ELSE Head(chars) \o from_iter(Tail(chars))

Digits == <<"0", "1", "2", "3", "4", "5", "6", "7", "8", "9">>

RECURSIVE fmt_usize(_)
\* format!("{}", n) for an unsigned integer: its decimal digits
fmt_usize(n) ==
    IF n < 10 THEN Digits[n + 1]
    ELSE fmt_usize(n \div 10) \o Digits[(n % 10) + 1]

-----------------------------------------------------------------------------
(* sheet.rs: column_letter *)

Alphabet ==
    <<"A", "B", "C", "D", "E", "F", "G", "H", "I", "J", "K", "L", "M",
      "N", "O", "P", "Q", "R", "S", "T", "U", "V", "W", "X", "Y", "Z">>

\* (b'A' + n) as char, n 0-based
single(n) == Alphabet[n + 1]

zero_based_unshifted(c) == c

\* (column_index - 1) as isize
zero_based(c) == c - 1

RECURSIVE column_letter_loop(_, _)
\* while column_index >= 0 { push(single(column_index % 26)); column_index = column_index / 26 - 1 }
column_letter_loop(ci, acc) ==
    IF ci >= 0
    THEN column_letter_loop((ci \div 26) - 1, Append(acc, single(ci % 26)))
    ELSE acc

\* result.into_iter().rev()
column_letter_chars(c) == Reverse(column_letter_loop(zero_based(c), <<>>))

column_letter(c) == from_iter(column_letter_chars(c))

-----------------------------------------------------------------------------
(* Option<T> *)

None == [some |-> FALSE]
Some(x) == [some |-> TRUE, v |-> x]

-----------------------------------------------------------------------------
(* sheet.rs: escape_xml, validate_name *)

RECURSIVE replace(_, _, _)
\* str.replace(from, to) with a one-character pattern
replace(str, from, to) ==
    IF str = <<>> THEN <<>>
    ELSE (IF Head(str) = from THEN to ELSE <<Head(str)>>)
         \o replace(Tail(str), from, to)

escape_xml_amp_last(str) ==
    LET s1 == replace(str, "<", <<"&", "l", "t", ";">>)
        s2 == replace(s1, ">", <<"&", "g", "t", ";">>)
        s3 == replace(s2, "'", <<"&", "a", "p", "o", "s", ";">>)
        s4 == replace(s3, "\"", <<"&", "q", "u", "o", "t", ";">>)
    IN  replace(s4, "&", <<"&", "a", "m", "p", ";">>)

escape_xml(str) ==
    LET s1 == replace(str, "&", <<"&", "a", "m", "p", ";">>)
        s2 == replace(s1, "<", <<"&", "l", "t", ";">>)
        s3 == replace(s2, ">", <<"&", "g", "t", ";">>)
        s4 == replace(s3, "'", <<"&", "a", "p", "o", "s", ";">>)
    IN  replace(s4, "\"", <<"&", "q", "u", "o", "t", ";">>)

validate_name(name) == replace(escape_xml(name), "/", <<"-">>)

-----------------------------------------------------------------------------
(* sheet.rs: CellValue, CellData, ToCellData *)

Bool(b) == [tag |-> "Bool", v |-> b]
Number(n) == [tag |-> "Number", v |-> n]
String(s) == [tag |-> "String", v |-> s]
Formula(s) == [tag |-> "Formula", v |-> s]
Blank(n) == [tag |-> "Blank", v |-> n]
SharedString(s) == [tag |-> "SharedString", v |-> s]

\* impl From<CellValue> for CellData
CellData(value) == [value |-> value, xf_format |-> None]

with_xf_format(cd, xf) == [cd EXCEPT !.xf_format = Some(xf)]

\* self.starts_with('=')
starts_with_eq(s) == Len(s) > 0 /\ s[1] = "="

\* The accepted host values, tagged by their Rust type:
\*   [ty |-> "str", v |-> chars]  (&str and String),  [ty |-> "unit"],
\*   [ty |-> "bool", v |-> b],  [ty |-> "f64", v |-> n],
\*   [ty |-> "f64_xf", v |-> n, xf |-> k],  [ty |-> "CellValue", v |-> cv],
\*   [ty |-> "CellData", v |-> cd]
to_cell_data(x) ==
    CASE x.ty = "str" ->
            IF starts_with_eq(x.v) THEN CellData(Formula(Tail(x.v)))
            ELSE CellData(String(x.v))
      [] x.ty = "unit" -> CellData(Blank(1))
      [] x.ty = "bool" -> CellData(Bool(x.v))
      [] x.ty = "f64" -> CellData(Number(x.v))
      [] x.ty = "f64_xf" -> with_xf_format(CellData(Number(x.v)), x.xf)
      [] x.ty = "CellValue" -> CellData(x.v)
      [] x.ty = "CellData" -> x.v

-----------------------------------------------------------------------------
(* sheet.rs: Row *)

RowNew == [cells |-> <<>>, row_index |-> 0, max_col_index |-> 0, calc_chain |-> <<>>]

add_cell_blank_is_one(row, x) ==
    LET value == to_cell_data(x) IN
    CASE value.value.tag = "Formula" ->
            [row EXCEPT !.calc_chain = Append(@, value.value.v),
                        !.max_col_index = @ + 1,
                        !.cells = Append(@, [column_index |-> row.max_col_index + 1,
                                             value |-> value])]
      [] value.value.tag = "Blank" ->
            [row EXCEPT !.max_col_index = @ + 1]
      [] OTHER ->
            [row EXCEPT !.max_col_index = @ + 1,
                        !.cells = Append(@, [column_index |-> row.max_col_index + 1,
                                             value |-> value])]

\* Row::add_cell: the row after the call
add_cell(row, x) ==
    LET value == to_cell_data(x) IN
    CASE value.value.tag = "Formula" ->
            [row EXCEPT !.calc_chain = Append(@, value.value.v),
                        !.max_col_index = @ + 1,
                        !.cells = Append(@, [column_index |-> row.max_col_index + 1,
                                             value |-> value])]
      [] value.value.tag = "Blank" ->
            [row EXCEPT !.max_col_index = @ + value.value.v]
      [] OTHER ->
            [row EXCEPT !.max_col_index = @ + 1,
                        !.cells = Append(@, [column_index |-> row.max_col_index + 1,
                                             value |-> value])]

RECURSIVE add_cells(_, _)
add_cells(row, xs) ==
    IF xs = <<>> THEN row ELSE add_cells(add_cell(row, Head(xs)), Tail(xs))

\* Row::add_empty_cells
add_empty_cells(row, cols) == [row EXCEPT !.max_col_index = @ + cols]

inner_add_cell_keeps_index(row, cell) ==
    [row EXCEPT !.max_col_index = @ + 1,
                !.cells = Append(@, [column_index |-> cell.column_index,
                                     value |-> cell.value])]

\* Row::inner_add_cell
inner_add_cell(row, cell) ==
    [row EXCEPT !.max_col_index = @ + 1,
                !.cells = Append(@, [column_index |-> row.max_col_index + 1,
                                     value |-> cell.value])]

RECURSIVE join_steps(_, _)
\* the loop of Row::join: the row after each inner_add_cell, in order
join_steps(row, cells) ==
    IF cells = <<>> THEN <<>>
    ELSE LET r1 == inner_add_cell(row, Head(cells)) IN
         <<r1>> \o join_steps(r1, Tail(cells))

\* Row::join(other): the row after the loop
join(row, other) ==
    LET steps == join_steps(row, other.cells) IN
    IF steps = <<>> THEN row ELSE steps[Len(steps)]

\* the row! macro: Row::new() and one add_cell per expression
row_macro(xs) == add_cells(RowNew, xs)

-----------------------------------------------------------------------------
(* workbook.rs: SharedStrings *)

SharedStringsNew == [count |-> 0, used |-> TRUE, strings |-> <<>>]
SharedStringsNewUnused == [count |-> 0, used |-> FALSE, strings |-> <<>>]

set_used(shared, using) == [shared EXCEPT !.used = using]

add_count(shared) == [shared EXCEPT !.count = @ + 1]

\* self.strings.iter().position(|v| v == val): 0-based, -1 for None
position(strings, val) ==
    IF \E i \in 1..Len(strings) : strings[i] = val
    THEN (CHOOSE i \in 1..Len(strings) :
             /\ strings[i] = val
             /\ \A j \in 1..(i - 1) : strings[j] # val) - 1
    ELSE -1

register_always_push(shared, val) ==
    LET s1 == add_count(shared) IN
    [shared |-> [s1 EXCEPT !.strings = Append(@, val)],
     value |-> SharedString(fmt_usize(Len(s1.strings)))]

\* returns the table after the call and the CellValue::SharedString
register(shared, val) ==
    LET s1 == add_count(shared)
        idx == position(s1.strings, val)
    IN  IF idx >= 0
        THEN [shared |-> s1, value |-> SharedString(fmt_usize(idx))]
        ELSE [shared |-> [s1 EXCEPT !.strings = Append(@, val)],
              value |-> SharedString(fmt_usize((Len(s1.strings) + 1) - 1))]

RECURSIVE replace_cells(_, _, _)
\* the loop of replace_strings over cells i..: the cells and the table after it
replace_cells(cells, i, shared) ==
    IF i > Len(cells) THEN [cells |-> cells, shared |-> shared]
    ELSE IF cells[i].value.value.tag = "String"
         THEN LET r == register(shared, escape_xml(cells[i].value.value.v)) IN
              replace_cells([cells EXCEPT ![i].value.value = r.value], i + 1, r.shared)
         ELSE replace_cells(cells, i + 1, shared)

replace_strings_unconditional(row, shared) ==
    LET r == replace_cells(row.cells, 1, shared) IN
    [row |-> [row EXCEPT !.cells = r.cells], shared |-> r.shared]

\* Row::replace_strings: the row and the table after it
replace_strings(row, shared) ==
    IF ~shared.used THEN [row |-> row, shared |-> shared]
    ELSE LET r == replace_cells(row.cells, 1, shared) IN
         [row |-> [row EXCEPT !.cells = r.cells], shared |-> r.shared]

-----------------------------------------------------------------------------
(* workbook.rs: CellFormats *)

\* `n as u16`
as_u16(n) == n % 65536

BASE_NUM_FMT_CUSTOM == 165
BASE_FILL == 2
BASE_BORDER == 1

\* #[derive(Default)] CellXf
CellXfDefault == [num_fmt |-> None, font |-> None, fill |-> None, border |-> None]

\* #[derive(Default)] CellFormats; num_fmts is a map from id to pattern
CellFormatsDefault ==
    [num_fmts |-> <<>>, fills |-> <<>>, borders |-> <<>>, cell_xfs |-> <<>>]

\* CellFormats::new: the three pre-seeded cell-xfs
CellFormatsNew ==
    [CellFormatsDefault EXCEPT
        !.cell_xfs = << [CellXfDefault EXCEPT !.num_fmt = Some(0)],
                        [CellXfDefault EXCEPT !.num_fmt = Some(14)],
                        [CellXfDefault EXCEPT !.num_fmt = Some(22)] >>]

\* BTreeMap::insert
insert(map, key, value) ==
    [k \in (DOMAIN map) \cup {key} |-> IF k = key THEN value ELSE map[k]]

add_fill_from_len(formats, fg_color, bg_color) ==
    [formats |-> [formats EXCEPT !.fills = Append(@, <<fg_color, bg_color>>)],
     result |-> as_u16(Len(formats.fills))]

\* the formats after the call and the Fill returned
add_fill(formats, fg_color, bg_color) ==
    [formats |-> [formats EXCEPT !.fills = Append(@, <<fg_color, bg_color>>)],
     result |-> BASE_FILL + as_u16(Len(formats.fills))]

\* the formats after the call and the Border returned
add_border(formats, border_format) ==
    [formats |-> [formats EXCEPT !.borders = Append(@, border_format)],
     result |-> BASE_BORDER + as_u16(Len(formats.borders))]

\* the formats after the call and the NumberFormat returned
add_number_format(formats, pattern) ==
    LET new_id == BASE_NUM_FMT_CUSTOM + as_u16(Cardinality(DOMAIN formats.num_fmts)) IN
    [formats |-> [formats EXCEPT !.num_fmts = insert(@, new_id, pattern)],
     result |-> new_id]

add_cell_xf_one_based(formats, cell_xf) ==
    [formats |-> [formats EXCEPT !.cell_xfs = Append(@, cell_xf)],
     result |-> as_u16(Len(formats.cell_xfs)) + 1]

\* the formats after the call and the XfFormat returned
add_cell_xf(formats, cell_xf) ==
    [formats |-> [formats EXCEPT !.cell_xfs = Append(@, cell_xf)],
     result |-> as_u16(Len(formats.cell_xfs))]

-----------------------------------------------------------------------------
(* sheet.rs: cell and row emission *)

ref_id_zero_based(ci, row_index) == column_letter(ci + 1) \o fmt_usize(row_index)

\* format!("{}{}", column_letter(column_index), row_index)
ref_id(ci, row_index) == column_letter(ci) \o fmt_usize(row_index)

\* an emitted <c> element
CellXml(r, t, s, child, body) ==
    [r |-> r, t |-> t, s |-> s, child |-> child, body |-> body]

\* the s attribute: format!(" s=\"{xf_format}\"") of the XfFormat, if any
cell_style(xf_format) ==
    IF xf_format.some THEN Some(fmt_usize(xf_format.v)) ELSE None

write_number(r, num, style) ==
    <<CellXml(r, "", cell_style(style), "v", fmt_usize(num))>>

\* the elements write_value writes for one cell (none for Blank)
write_value(cv, r) ==
    CASE cv.value.tag = "Bool" ->
            <<CellXml(r, "b", cell_style(cv.xf_format), "v", IF cv.value.v THEN "1" ELSE "0")>>
      [] cv.value.tag = "Number" -> write_number(r, cv.value.v, cv.xf_format)
      [] cv.value.tag = "String" ->
            <<CellXml(r, "str", cell_style(cv.xf_format), "v", from_iter(escape_xml(cv.value.v)))>>
      [] cv.value.tag = "Formula" ->
            <<CellXml(r, "str", cell_style(cv.xf_format), "f", from_iter(escape_xml(cv.value.v)))>>
      [] cv.value.tag = "SharedString" ->
            <<CellXml(r, "s", cell_style(cv.xf_format), "v", cv.value.v)>>
      [] cv.value.tag = "Blank" -> <<>>

RECURSIVE write_cells(_, _)
write_cells(cells, row_index) ==
    IF cells = <<>> THEN <<>>
    ELSE write_value(Head(cells).value, ref_id(Head(cells).column_index, row_index))
         \o write_cells(Tail(cells), row_index)

\* Row::write: the <row> element
row_write(row) ==
    [el |-> "row", r |-> row.row_index, c |-> write_cells(row.cells, row.row_index)]

-----------------------------------------------------------------------------
(* sheet.rs: Sheet *)

SheetDefault ==
    [id |-> 0, name |-> <<>>, columns |-> <<>>, max_row_index |-> 0,
     calc_chain |-> <<>>, merged_cells |-> <<>>, auto_filter |-> None]

SheetNew(id, sheet_name) ==
    [SheetDefault EXCEPT !.id = id, !.name = validate_name(sheet_name)]

Column(width) == [width |-> width]

\* Sheet::add_column
add_column(sh, column) == [sh EXCEPT !.columns = Append(@, column)]

\* Sheet::write_row: the sheet and the buffer after it
write_row(sh, buf, row) ==
    LET n == sh.max_row_index + 1
        row1 == [row EXCEPT !.row_index = n]
    IN  [sheet |-> [sh EXCEPT !.max_row_index = n,
                              !.calc_chain = @ \o row1.calc_chain],
         writer |-> Append(buf, row_write(row1))]

write_blank_rows_one_row(sh, rows) == [sh EXCEPT !.max_row_index = @ + 1]

\* Sheet::write_blank_rows
write_blank_rows(sh, rows) == [sh EXCEPT !.max_row_index = @ + rows]

\* SheetWriter::append_blank_rows
append_blank_rows(sh, rows) == write_blank_rows(sh, rows)

\* SheetWriter::append_row: the sheet, the buffer and the table after it
append_row(sh, buf, shared, row) ==
    LET rep == replace_strings(row, shared)
        wr == write_row(sh, buf, rep.row)
    IN  [sheet |-> wr.sheet, writer |-> wr.writer, shared |-> rep.shared,
         row |-> rep.row]

-----------------------------------------------------------------------------
(* sheet.rs: the worksheet part, as the sequence of elements written *)

\* Sheet::write_head: the declaration and root, then <cols> if any column
write_head(sh) ==
    <<[el |-> "worksheet"]>>
    \o (IF sh.columns = <<>> THEN <<>>
        ELSE <<[el |-> "cols",
                col |-> [i \in 1..Len(sh.columns) |->
                            [min |-> i, max |-> i, width |-> sh.columns[i].width]]]>>)

write_data_begin == <<[el |-> "sheetData"]>>

\* AutoFilter::to_string
auto_filter_to_string(af) ==
    af.start_col \o fmt_usize(af.start_row) \o ":" \o af.end_col \o fmt_usize(af.end_row)

write_data_end(sh) ==
    IF sh.auto_filter.some
    THEN <<[el |-> "/sheetData"],
           [el |-> "autoFilter", ref |-> auto_filter_to_string(sh.auto_filter.v)]>>
    ELSE <<[el |-> "/sheetData"]>>

write_merged_cells_always(sh) ==
    <<[el |-> "mergeCells", count |-> Len(sh.merged_cells),
       ref |-> [i \in 1..Len(sh.merged_cells) |->
                   sh.merged_cells[i].start_ref \o ":" \o sh.merged_cells[i].end_ref]]>>

write_merged_cells(sh) ==
    IF sh.merged_cells # <<>>
    THEN <<[el |-> "mergeCells", count |-> Len(sh.merged_cells),
            ref |-> [i \in 1..Len(sh.merged_cells) |->
                        sh.merged_cells[i].start_ref \o ":" \o sh.merged_cells[i].end_ref]]>>
    ELSE <<>>

sheet_close == <<[el |-> "/worksheet"]>>

-----------------------------------------------------------------------------
(* workbook.rs: paths *)

\* PathBuf::push, PathBuf::pop
push(root, comp) == Append(root, comp)
pop(root) == IF root = <<>> THEN root ELSE SubSeq(root, 1, Len(root) - 1)

RECURSIVE path_format(_)
\* the Normal components joined by '/'
path_format(path) ==
    IF path = <<>> THEN ""
    ELSE IF Len(path) = 1 THEN path[1]
    ELSE path_format(SubSeq(path, 1, Len(path) - 1)) \o "/" \o path[Len(path)]

ArchiveFile(name, data) == [name |-> name, data |-> data]

-----------------------------------------------------------------------------
(* workbook.rs: the skeleton parts, as the data each renders *)

\* one Override per sheet, in the order of self.sheets
create_content_types(refs) ==
    [part |-> "Types",
     sheet |-> [i \in 1..Len(refs) |->
                  "/xl/worksheets/sheet" \o fmt_usize(refs[i].id) \o ".xml"]]

create_rels == [part |-> "Relationships"]
create_app == [part |-> "Properties"]
create_core == [part |-> "coreProperties"]
create_xl_theme == [part |-> "theme"]

\* Color and Color::xml: an attribute name and its value
Theme(t) == [tag |-> "Theme", v |-> t]
Argb(rgb) == [tag |-> "Argb", v |-> rgb]

HexDigits ==
    <<"0", "1", "2", "3", "4", "5", "6", "7", "8", "9", "A", "B", "C", "D", "E", "F">>

RECURSIVE fmt_hex(_)
\* format!("{:X}", n)
fmt_hex(n) ==
    IF n < 16 THEN HexDigits[n + 1]
    ELSE fmt_hex(n \div 16) \o HexDigits[(n % 16) + 1]

RECURSIVE pad_zero(_, _)
\* the fill of {:0>8}: zeros on the left up to the width
pad_zero(str, width) == IF Len(str) >= width THEN str ELSE pad_zero("0" \o str, width)

color_xml(color) ==
    IF color.tag = "Theme" THEN [attr |-> "theme", val |-> fmt_usize(color.v)]
    ELSE [attr |-> "rgb", val |-> pad_zero(fmt_hex(color.v), 8)]

\* BorderStyle::xml: the value of the style attribute
border_style_xml(style) ==
    CASE style = "None" -> "none"
      [] style = "Thin" -> "thin"
      [] style = "Medium" -> "medium"
      [] style = "Dashed" -> "dashed"
      [] style = "Dotted" -> "dotted"
      [] style = "Thick" -> "thick"
      [] style = "Double" -> "double"
      [] style = "Hair" -> "hair"
      [] style = "MediumDashed" -> "mediumDashed"
      [] style = "DashDot" -> "dashDot"
      [] style = "MediumDashDot" -> "mediumDashDot"
      [] style = "DashDotDot" -> "dashDotDot"
      [] style = "MediumDashDotDot" -> "mediumDashDotDot"
      [] style = "SlantDashDot" -> "slantDashDot"

\* #[derive(Default)] BorderFormat: each side None or Some(<<style, color>>)
BorderFormatDefault == [top |-> None, right |-> None, bottom |-> None, left |-> None]

\* one side of a <border>: with a style and a colour, or empty
border_side(side, border) ==
    IF border.some
    THEN [side |-> side, style |-> Some(border_style_xml(border.v[1])),
          color |-> Some(color_xml(border.v[2]))]
    ELSE [side |-> side, style |-> None, color |-> None]

\* the <border> of one BorderFormat: left, right, top, bottom
border_xml(border) ==
    << border_side("left", border.left), border_side("right", border.right),
       border_side("top", border.top), border_side("bottom", border.bottom) >>

RECURSIVE sorted_keys(_)
\* the keys of a map in ascending order (BTreeMap::iter, sort_by_key)
sorted_keys(keys) ==
    IF keys = {} THEN <<>>
    ELSE LET m == CHOOSE k \in keys : \A j \in keys : k <= j
         IN  <<m>> \o sorted_keys(keys \ {m})

xf_xml_apply_when_present(xf) ==
    LET num_fmt_id == IF xf.num_fmt.some THEN xf.num_fmt.v ELSE 0
        font_id == IF xf.font.some THEN xf.font.v ELSE 0
        fill_id == IF xf.fill.some THEN xf.fill.v ELSE 0
        border_id == IF xf.border.some THEN xf.border.v ELSE 0
    IN  [numFmtId |-> fmt_usize(num_fmt_id), fontId |-> fmt_usize(font_id),
         fillId |-> fmt_usize(fill_id), borderId |-> fmt_usize(border_id),
         xfId |-> "0",
         applyNumberFormat |-> xf.num_fmt.some, applyFont |-> xf.font.some,
         applyFill |-> xf.fill.some, applyBorder |-> xf.border.some]

\* the <xf> of one CellXf
xf_xml(xf) ==
    LET num_fmt_id == IF xf.num_fmt.some THEN xf.num_fmt.v ELSE 0
        font_id == IF xf.font.some THEN xf.font.v ELSE 0
        fill_id == IF xf.fill.some THEN xf.fill.v ELSE 0
        border_id == IF xf.border.some THEN xf.border.v ELSE 0
    IN  [numFmtId |-> fmt_usize(num_fmt_id), fontId |-> fmt_usize(font_id),
         fillId |-> fmt_usize(fill_id), borderId |-> fmt_usize(border_id),
         xfId |-> "0",
         applyNumberFormat |-> num_fmt_id > 0, applyFont |-> font_id > 0,
         applyFill |-> fill_id > 0, applyBorder |-> border_id > 0]

\* Workbook::create_styles: <numFmts> and <cellXfs> only when not empty
create_styles(formats) ==
    LET ids == sorted_keys(DOMAIN formats.num_fmts) IN
    [part |-> "styleSheet",
     numFmts |->
        IF DOMAIN formats.num_fmts = {} THEN None
        ELSE Some([count |-> fmt_usize(Cardinality(DOMAIN formats.num_fmts)),
                   numFmt |-> [i \in 1..Len(ids) |->
                                 [numFmtId |-> fmt_usize(ids[i]),
                                  formatCode |-> escape_xml(formats.num_fmts[ids[i]])]]]),
     fonts |-> [count |-> "1"],
     fills |->
        [count |-> fmt_usize(as_u16(Len(formats.fills)) + BASE_FILL),
         fill |-> << [patternType |-> "none"], [patternType |-> "gray125"] >>
                  \o [i \in 1..Len(formats.fills) |->
                        [patternType |-> "solid",
                         fgColor |-> color_xml(formats.fills[i][1]),
                         bgColor |-> color_xml(formats.fills[i][2])]]],
     borders |->
        [count |-> fmt_usize(as_u16(Len(formats.borders)) + BASE_BORDER),
         border |-> << border_xml(BorderFormatDefault) >>
                    \o [i \in 1..Len(formats.borders) |-> border_xml(formats.borders[i])]],
     cellXfs |->
        IF formats.cell_xfs = <<>> THEN None
        ELSE Some([count |-> fmt_usize(Len(formats.cell_xfs)),
                   xf |-> [i \in 1..Len(formats.cell_xfs) |-> xf_xml(formats.cell_xfs[i])]])]

\* sf.trim().len() < sf.len()
is_whitespace(ch) == ch \in {" ", "\t", "\n", "\r"}
trim_shortens(sf) ==
    Len(sf) > 0 /\ (is_whitespace(sf[1]) \/ is_whitespace(sf[Len(sf)]))

create_shared_strings(shared) ==
    [part |-> "sst", count |-> shared.count, uniqueCount |-> Len(shared.strings),
     si |-> [i \in 1..Len(shared.strings) |->
               [preserve |-> trim_shortens(shared.strings[i]),
                t |-> shared.strings[i]]]]

\* one <sheet> per SheetRef
create_workbook(refs) ==
    [part |-> "workbook",
     sheet |-> [i \in 1..Len(refs) |->
                  [name |-> refs[i].name, sheetId |-> refs[i].id,
                   rid |-> "rId" \o fmt_usize(refs[i].id + 2)]]]

create_calc_chain(chain) ==
    [part |-> "calcChain",
     c |-> [i \in 1..Len(chain) |-> [r |-> chain[i][1], i |-> chain[i][2]]]]

\* the last value of rid in the loop of create_xl_rels
last_rid(refs) == IF refs = <<>> THEN 0 ELSE refs[Len(refs)].id + 2

create_xl_rels_off_by_one(refs) ==
    [part |-> "Relationships",
     rel |-> <<[Id |-> "rId1", Target |-> "theme/theme1.xml"],
               [Id |-> "rId2", Target |-> "styles.xml"]>>
             \o [i \in 1..Len(refs) |->
                   [Id |-> "rId" \o fmt_usize(refs[i].id + 1),
                    Target |-> "worksheets/sheet" \o fmt_usize(refs[i].id) \o ".xml"]]
             \o <<[Id |-> "rId" \o fmt_usize(last_rid(refs) + 1),
                   Target |-> "sharedStrings.xml"]>>]

create_xl_rels(refs) ==
    [part |-> "Relationships",
     rel |-> <<[Id |-> "rId1", Target |-> "theme/theme1.xml"],
               [Id |-> "rId2", Target |-> "styles.xml"]>>
             \o [i \in 1..Len(refs) |->
                   [Id |-> "rId" \o fmt_usize(refs[i].id + 2),
                    Target |-> "worksheets/sheet" \o fmt_usize(refs[i].id) \o ".xml"]]
             \o <<[Id |-> "rId" \o fmt_usize(last_rid(refs) + 1),
                   Target |-> "sharedStrings.xml"]>>]

\* the value of root at each push of Workbook::create_files
root_content_types == push(<<>>, "[Content_Types].xml")
root_rels == push(push(pop(root_content_types), "_rels"), ".rels")
root_app == push(push(pop(pop(root_rels)), "docProps"), "app.xml")
root_core == push(pop(root_app), "core.xml")
root_styles == push(push(pop(pop(root_core)), "xl"), "styles.xml")
root_shared_strings == push(pop(root_styles), "sharedStrings.xml")
root_workbook == push(pop(root_shared_strings), "workbook.xml")
root_calc_chain == push(pop(root_workbook), "calcChain.xml")
root_xl_rels == push(push(pop(root_calc_chain), "_rels"), "workbook.xml.rels")
root_theme == push(push(pop(pop(root_xl_rels)), "theme"), "theme1.xml")

\* the pushes of Workbook::create_files, in order: archive_files after them
create_files_pushes(files, refs, shared, chain, formats) ==
    files \o
    << ArchiveFile(root_content_types, create_content_types(refs)),
       ArchiveFile(root_rels, create_rels),
       ArchiveFile(root_app, create_app),
       ArchiveFile(root_core, create_core),
       ArchiveFile(root_styles, create_styles(formats)),
       ArchiveFile(root_shared_strings, create_shared_strings(shared)),
       ArchiveFile(root_workbook, create_workbook(refs)),
       ArchiveFile(root_calc_chain, create_calc_chain(chain)),
       ArchiveFile(root_xl_rels, create_xl_rels(refs)),
       ArchiveFile(root_theme, create_xl_theme) >>

create_files_once(files, refs, shared, chain, formats) ==
    IF \E i \in 1..Len(files) : files[i].name = root_content_types
    THEN files
    ELSE create_files_pushes(files, refs, shared, chain, formats)

\* Workbook::create_files
create_files(files, refs, shared, chain, formats) ==
    create_files_pushes(files, refs, shared, chain, formats)

-----------------------------------------------------------------------------
(* workbook.rs: create_sheet, write_sheet, close *)

create_sheet_id_before_increment(index, sheet_name) ==
    LET validated_name == validate_name(sheet_name) IN
    [max_sheet_index |-> index + 1,
     ref |-> [id |-> index, name |-> validated_name],
     sheet |-> [SheetDefault EXCEPT !.id = index, !.name = validated_name]]

\* Workbook::create_sheet: the counter, the SheetRef pushed and the Sheet returned
create_sheet(index, sheet_name) ==
    LET index1 == index + 1
        validated_name == validate_name(sheet_name)
    IN  [max_sheet_index |-> index1,
         ref |-> [id |-> index1, name |-> validated_name],
         sheet |-> [SheetDefault EXCEPT !.id = index1, !.name = validated_name]]

\* the entry name write_sheet builds: xl / worksheets / sheet{id}.xml
sheet_root(id) ==
    push(push(push(<<>>, "xl"), "worksheets"), "sheet" \o fmt_usize(id) \o ".xml")

RECURSIVE tagged(_, _)
\* the pairs (cc, sheet.id) write_sheet pushes for the sheet's calc_chain
tagged(chain, id) ==
    IF chain = <<>> THEN <<>> ELSE <<<<Head(chain), id>>>> \o tagged(Tail(chain), id)

write_sheet_push_front(files, name, data) == <<ArchiveFile(name, data)>> \o files

write_sheet_push_first_sheet(files, name, data) ==
    Append(files, ArchiveFile(sheet_root(1), data))

\* self.archive_files.push(ArchiveFile { name: root, data: writer })
write_sheet_push(files, name, data) == Append(files, ArchiveFile(name, data))

write_sheet_finish_always(files, name, data, ok) == write_sheet_push(files, name, data)

\* sw.write(write_data)?; then the push: an Err of the closure returns early
write_sheet_finish(files, name, data, ok) ==
    IF ok THEN write_sheet_push(files, name, data) ELSE files

close_finish_always_saved(file, is_saved) ==
    IF file.some THEN [saved |-> TRUE, ret |-> "None"]
    ELSE [saved |-> TRUE, ret |-> "Some"]

\* the end of a close that wrote its archive: the saved flag and the value returned
close_finish(file, is_saved) ==
    IF file.some THEN [saved |-> TRUE, ret |-> "None"]
    ELSE [saved |-> is_saved, ret |-> "Some"]

-----------------------------------------------------------------------------
(* sheet.rs: SheetWriter merge operations, Sheet::add_auto_filter *)

\* `column_index - 1` on usize: overflows for 0 (a panic when the build checks
\* overflow; otherwise it wraps and column_letter returns "")
sub_overflows(c) == c < 1

MergedCell(start_ref, end_ref) == [start_ref |-> start_ref, end_ref |-> end_ref]

merge_cells_columns_only(sh, start, end, overflow_checks) ==
    IF end[1] >= start[1]
    THEN IF overflow_checks /\ (sub_overflows(start[1]) \/ sub_overflows(end[1]))
         THEN [sheet |-> sh, ret |-> "panic"]
         ELSE [sheet |-> [sh EXCEPT !.merged_cells =
                             Append(@, MergedCell(ref_id(start[1], start[2]),
                                                  ref_id(end[1], end[2])))],
               ret |-> "Ok"]
    ELSE [sheet |-> sh, ret |-> "Err"]

\* SheetWriter::merge_cells(start, end), pairs (column, row): the sheet after the
\* call and Ok, Err("invalid range") or a panic in column_letter
merge_cells(sh, start, end, overflow_checks) ==
    IF end[1] >= start[1] /\ end[2] >= start[2]
    THEN IF overflow_checks /\ (sub_overflows(start[1]) \/ sub_overflows(end[1]))
         THEN [sheet |-> sh, ret |-> "panic"]
         ELSE [sheet |-> [sh EXCEPT !.merged_cells =
                             Append(@, MergedCell(ref_id(start[1], start[2]),
                                                  ref_id(end[1], end[2])))],
               ret |-> "Ok"]
    ELSE [sheet |-> sh, ret |-> "Err"]

\* SheetWriter::merge_range(start_ref, end_ref): pushes the pair as given
merge_range(sh, start_ref, end_ref) ==
    [sheet |-> [sh EXCEPT !.merged_cells = Append(@, MergedCell(start_ref, end_ref))],
     ret |-> "Ok"]

merge_area_end_exclusive(sh, start, width, height, overflow_checks) ==
    merge_cells(sh, start, <<start[1] + width, start[2] + height>>, overflow_checks)

\* SheetWriter::merge_area(start, width, height), start 1-based (so that
\* start + width - 1 does not overflow)
merge_area(sh, start, width, height, overflow_checks) ==
    merge_cells(sh, start, <<start[1] + width - 1, start[2] + height - 1>>,
                overflow_checks)

AutoFilter(start_col, end_col, start_row, end_row) ==
    [start_col |-> start_col, end_col |-> end_col,
     start_row |-> start_row, end_row |-> end_row]

add_auto_filter_clears(sh, start_col, end_col, start_row, end_row) ==
    IF start_col > 0 /\ start_row > 0 /\ start_col <= end_col /\ start_row <= end_row
    THEN [sh EXCEPT !.auto_filter =
             Some(AutoFilter(column_letter(start_col), column_letter(end_col),
                             start_row, end_row))]
    ELSE [sh EXCEPT !.auto_filter = None]

add_auto_filter_keeps_first(sh, start_col, end_col, start_row, end_row) ==
    IF start_col > 0 /\ start_row > 0 /\ start_col <= end_col /\ start_row <= end_row
       /\ ~sh.auto_filter.some
    THEN [sh EXCEPT !.auto_filter =
             Some(AutoFilter(column_letter(start_col), column_letter(end_col),
                             start_row, end_row))]
    ELSE sh

\* Sheet::add_auto_filter: the sheet after the call
add_auto_filter(sh, start_col, end_col, start_row, end_row) ==
    IF start_col > 0 /\ start_row > 0 /\ start_col <= end_col /\ start_row <= end_row
    THEN [sh EXCEPT !.auto_filter =
             Some(AutoFilter(column_letter(start_col), column_letter(end_col),
                             start_row, end_row))]
    ELSE sh

-----------------------------------------------------------------------------
(* State shared by the specifications below *)

NoSession == [open |-> FALSE, id |-> 0]

NoClose == [called |-> FALSE, ok |-> FALSE, ret |-> "", entries |-> <<>>,
            n |-> 0, writes |-> <<>>, failed |-> <<>>]
NoWrite == [called |-> FALSE, ok |-> FALSE, id |-> 0, formulas |-> <<>>]
NoMerge == [called |-> FALSE, op |-> "", args |-> <<>>, ret |-> "", before |-> <<>>]
NoFilter == [called |-> FALSE, args |-> <<>>, before |-> None]
NoRowOp == [called |-> FALSE, op |-> "", arg |-> <<>>, before |-> <<>>]
NoAppend == [called |-> FALSE, row |-> RowNew, out |-> <<>>]
NoBlank == [called |-> FALSE, sheet |-> 0, n |-> 0, before |-> <<>>, after |-> <<>>]

NoDoc == [called |-> FALSE, ok |-> FALSE, sheet |-> <<>>, rows |-> <<>>, inside |-> 0,
          before |-> <<>>, filters |-> <<>>]
NoRowAppend == [called |-> FALSE, row |-> <<>>, before |-> <<>>]
NoRender == [called |-> FALSE, numFmts |-> 0, xfs |-> 0]

NoHist ==
    [ops |-> 0,            \* calls made so far
     ctor |-> "",          \* the constructor the workbook was made with
     regs |-> <<>>,        \* every register call: [val, idx], in call order
     emitted |-> {},       \* text cells replaced by append_row: [sheet, text, idx]
     returned |-> <<>>,    \* the ids of the Sheets create_sheet returned, in call order
     session |-> <<>>,     \* formula cells appended in the write_sheet call in progress
     lastWrite |-> NoWrite, \* the last write_sheet call that returned
     okWrites |-> <<>>,    \* sheet ids of the write_sheet calls that returned Ok, in order
     failedWrites |-> <<>>, \* sheet ids of the write_sheet calls that returned Err, in order
     closes |-> 0,         \* close calls made (explicit or by drop)
     explicitOk |-> 0,     \* close calls of the caller that returned Ok
     fileWrites |-> 0,     \* times a close wrote the destination file
     dropClosed |-> FALSE, \* drop has called close
     lastClose |-> NoClose, \* the last close call: its result and the entries it packaged
     lastMerge |-> NoMerge, \* the last merge call: its arguments, result and the list before
     lastFilter |-> NoFilter, \* the last add_auto_filter call: its arguments and the filter before
     lastRowOp |-> NoRowOp, \* the last call on the caller's Row: its argument and the row before
     cursors |-> <<>>,     \* the column cursor of the caller's Row when each cell was stored
     appended |-> <<>>,    \* by sheet: the number of append_row calls made
     blanks |-> <<>>,      \* by sheet: the sum of the n of the append_blank_rows calls made
     numbered |-> <<>>,    \* by sheet: for each appended row, <<appended, blanks>> before it
     lastBlank |-> NoBlank, \* the last append_blank_rows call: the state before and after it
     lastAppend |-> NoAppend, \* the last append_row of the write_sheet call in progress
     numFmts |-> <<>>,     \* every add_number_format call: [pattern, id], in call order
     xfs |-> <<>>,         \* every add_cell_xf call: [num_fmt, fill, border, idx], in call order
     fills |-> <<>>,       \* every add_fill call: [fg, bg, id], in call order
     borders |-> <<>>,     \* every add_border call: [format, id], in call order
     styled |-> <<>>,      \* every styled cell appended: [xf, num, out], in call order
     filterCalls |-> <<>>, \* the arguments of every add_auto_filter call, in call order
     docRows |-> <<>>,     \* the <row> elements appended in the write session in progress
     docInside |-> 0,      \* merge calls that returned Ok in the write session in progress
     lastDoc |-> NoDoc,    \* the last write call that returned: its result, sheet, rows, merges inside
     rowAppend |-> NoRowAppend, \* the last append_row of the caller's Row: the row and the sheet before
     rendered |-> NoRender] \* the add_number_format and add_cell_xf calls before the last close

\* #[derive(Default)] Workbook
WorkbookDefault ==
    /\ xlsx_file = None
    /\ archive_files = <<>>
    /\ max_sheet_index = 0
    /\ sheets = <<>>
    /\ calc_chain = <<>>
    /\ saved = FALSE
    /\ dropped = FALSE

InitLetter ==
    /\ column_index \in 1..MaxCol
    /\ result = <<>>
    /\ letters = ""
    /\ WorkbookDefault
    /\ shared_strings = SharedStringsNewUnused
    /\ sheet = <<>>
    /\ writer = <<>>
    /\ sw = NoSession
    /\ caller_row = RowNew
    /\ cell_formats = CellFormatsNew
    /\ hist = NoHist

\* one call column_letter(column_index)
ColumnLetter ==
    /\ letters = ""
    /\ result' = column_letter_chars(column_index)
    /\ letters' = column_letter(column_index)
    /\ UNCHANGED <<column_index, wbVars, shared_strings, sheet, writer, sw, caller_row,
                   cell_formats, hist>>

NextLetter == ColumnLetter

SpecLetter == InitLetter /\ [][NextLetter]_vars

-----------------------------------------------------------------------------
(* C1 *)

LetterValue(ch) == CHOOSE k \in 1..26 : Alphabet[k] = ch

RECURSIVE Decode(_)
\* value of a letter sequence, most significant first, A = 1 .. Z = 26
Decode(chars) ==
    IF chars = <<>> THEN 0
    ELSE 26 * Decode(SubSeq(chars, 1, Len(chars) - 1)) + LetterValue(chars[Len(chars)])

LetterExamples ==
    <<  <<1, "A">>, <<26, "Z">>, <<27, "AA">>, <<52, "AZ">>, <<53, "BA">>,
        <<702, "ZZ">>, <<703, "AAA">> >>

\* C1: for c >= 1 column_letter(c) is the bijective base-26 numeral of c over
\* A..Z: every letter is in A..Z, decoding the letters gives back c, no other
\* index of the range gives the same string, and 1->A, 26->Z, 27->AA, 52->AZ,
\* 53->BA, 702->ZZ, 703->AAA.
C1_ColumnLetterBijective ==
    letters # "" =>
        /\ result # <<>>
        /\ Range(result) \subseteq Range(Alphabet)
        /\ Decode(result) = column_index
        /\ letters = from_iter(result)
        /\ \A c \in 1..MaxCol : c # column_index => column_letter(c) # letters
        /\ \A i \in 1..Len(LetterExamples) :
              column_index = LetterExamples[i][1] => letters = LetterExamples[i][2]

\* C1 witness: a three-letter column has been computed
C1_Witness == column_index = 703 /\ letters = "AAA"

-----------------------------------------------------------------------------
(* Shared strings: a SharedStrings table used directly (register, set_used) *)
(* and through SheetWriter::append_row on two sheets                        *)

Str(chars) == [ty |-> "str", v |-> chars]
Unit == [ty |-> "unit"]
BoolIn(b) == [ty |-> "bool", v |-> b]

\* the rows appended (a tuple: the cells are of different types)
StringRows ==
    << << Str(<<"a">>) >>,
       << Str(<<"&">>), Str(<<"a">>) >>,
       << Str(<<"<", "b">>), Unit, Str(<<"&">>) >>,
       << BoolIn(TRUE), Str(<<"a">>), Str(<<"a">>) >> >>

RegisterVals == { <<"a">>, <<"&", "a", "m", "p", ";">> }

StringSheets == {1, 2}

InitStrings ==
    /\ column_index = 1
    /\ result = <<>>
    /\ letters = ""
    /\ WorkbookDefault
    /\ shared_strings \in {SharedStringsNew, SharedStringsNewUnused}
    /\ sheet = [s \in StringSheets |-> SheetNew(s, <<"S">>)]
    /\ writer = [s \in StringSheets |-> <<>>]
    /\ sw = NoSession
    /\ caller_row = RowNew
    /\ cell_formats = CellFormatsNew
    /\ hist = NoHist

\* the entity escape_xml is to produce for one character
Entity(ch) ==
    CASE ch = "&" -> <<"&", "a", "m", "p", ";">>
      [] ch = "<" -> <<"&", "l", "t", ";">>
      [] ch = ">" -> <<"&", "g", "t", ";">>
      [] ch = "'" -> <<"&", "a", "p", "o", "s", ";">>
      [] ch = "\"" -> <<"&", "q", "u", "o", "t", ";">>
      [] OTHER -> <<ch>>

RECURSIVE XmlEscaped(_)
\* the XML-escaped form of a text: every character replaced by its entity
XmlEscaped(chars) ==
    IF chars = <<>> THEN <<>> ELSE Entity(Head(chars)) \o XmlEscaped(Tail(chars))

\* positions of the text cells of a row that append_row replaced
ReplacedCells(row0, row1) ==
    {i \in 1..Len(row0.cells) :
        /\ row0.cells[i].value.value.tag = "String"
        /\ row1.cells[i].value.value.tag = "SharedString"}

RECURSIVE RegsOf(_, _, _)
\* the register calls of one append_row, in cell order: [val, idx]
RegsOf(row0, row1, i) ==
    IF i > Len(row0.cells) THEN <<>>
    ELSE (IF i \in ReplacedCells(row0, row1)
          THEN <<[val |-> XmlEscaped(row0.cells[i].value.value.v),
                  idx |-> row1.cells[i].value.value.v]>>
          ELSE <<>>) \o RegsOf(row0, row1, i + 1)

EmittedOf(s, row0, row1) ==
    {[sheet |-> s, text |-> row0.cells[i].value.value.v,
      idx |-> row1.cells[i].value.value.v] : i \in ReplacedCells(row0, row1)}

\* shared.register(val), called directly
SsRegister ==
    /\ hist.ops < MaxOps
    /\ \E val \in RegisterVals :
        LET r == register(shared_strings, val) IN
        /\ shared_strings' = r.shared
        /\ hist' = [hist EXCEPT !.ops = @ + 1,
                                !.regs = Append(@, [val |-> val, idx |-> r.value.v])]
    /\ UNCHANGED <<letterVars, caller_row, cell_formats, wbVars, sheet, writer, sw>>

\* shared.set_used(using)
SsSetUsed ==
    /\ hist.ops < MaxOps
    /\ \E using \in BOOLEAN :
        /\ using # shared_strings.used
        /\ shared_strings' = set_used(shared_strings, using)
    /\ hist' = [hist EXCEPT !.ops = @ + 1]
    /\ UNCHANGED <<letterVars, caller_row, cell_formats, wbVars, sheet, writer, sw>>

\* SheetWriter::new(sheet s, its buffer, the table).append_row(row![xs])
SsAppendRow ==
    /\ hist.ops < MaxOps
    /\ \E s \in StringSheets, k \in 1..Len(StringRows) :
        LET row0 == row_macro(StringRows[k])
            r == append_row(sheet[s], writer[s], shared_strings, row0)
        IN  /\ sheet' = [sheet EXCEPT ![s] = r.sheet]
            /\ writer' = [writer EXCEPT ![s] = r.writer]
            /\ shared_strings' = r.shared
            /\ hist' = [hist EXCEPT !.ops = @ + 1,
                                    !.regs = @ \o RegsOf(row0, r.row, 1),
                                    !.emitted = @ \cup EmittedOf(s, row0, r.row)]
    /\ UNCHANGED <<letterVars, caller_row, cell_formats, wbVars, sw>>

NextStrings == SsRegister \/ SsSetUsed \/ SsAppendRow

SpecStrings == InitStrings /\ [][NextStrings]_vars

-----------------------------------------------------------------------------
(* C2 *)

RegVals(n) == {hist.regs[j].val : j \in 1..n}

FirstReg(i) ==
    CHOOSE j \in 1..i :
        /\ hist.regs[j].val = hist.regs[i].val
        /\ \A k \in 1..(j - 1) : hist.regs[k].val # hist.regs[i].val

\* C2: over every sequence of register calls on a table, a string registered
\* before gets the index of its first registration (which is the number of
\* distinct strings registered before it), the number of stored strings equals
\* the number of distinct strings registered, and the usage counter equals the
\* number of register calls.
C2_RegisterDedup ==
    /\ \A i \in 1..Len(hist.regs) :
          /\ hist.regs[i].idx = hist.regs[FirstReg(i)].idx
          /\ hist.regs[i].idx = fmt_usize(Cardinality(RegVals(FirstReg(i) - 1)))
    /\ Len(shared_strings.strings) = Cardinality(RegVals(Len(hist.regs)))
    /\ shared_strings.count = Len(hist.regs)

\* C2 witness: three register calls on an enabled table, two of them of the
\* same string, with two distinct strings stored
C2_Witness ==
    /\ shared_strings.used
    /\ Len(hist.regs) = 3
    /\ hist.regs[1].val = hist.regs[3].val
    /\ hist.regs[1].val # hist.regs[2].val
    /\ Len(shared_strings.strings) = 2

-----------------------------------------------------------------------------
(* C3 *)

\* C3: every text cell that append_row replaced by a shared-string index i
\* finds, now and after every later call, the XML-escaped text of that cell at
\* position i of the table.
C3_IndexStable ==
    \A e \in hist.emitted :
        \E i \in 0..(Len(shared_strings.strings) - 1) :
            /\ fmt_usize(i) = e.idx
            /\ shared_strings.strings[i + 1] = XmlEscaped(e.text)

\* C3 witness: a text with a character to escape was given index 0 on sheet 1,
\* and later calls, one of them on the other sheet, have added strings
C3_Witness ==
    /\ \E e \in hist.emitted : e.sheet = 1 /\ e.idx = "0" /\ e.text = <<"<", "b">>
    /\ \E e \in hist.emitted : e.sheet = 2 /\ e.idx = "2"
    /\ Len(shared_strings.strings) = 3

-----------------------------------------------------------------------------
(* The workbook: create / create_simple / create_in_memory, then            *)
(* create_sheet, write_sheet (whose closure appends rows), close and drop   *)

SheetNames == { <<"a", "/", "b">> }

\* the rows a population closure appends
WorkbookRows ==
    << << Str(<<"n">>), Str(<<"=", "S">>) >>,
       << BoolIn(TRUE) >> >>

Init ==
    /\ column_index = 1
    /\ result = <<>>
    /\ letters = ""
    /\ \E ctor \in {"create", "create_simple", "create_in_memory"} :
        /\ xlsx_file = IF ctor = "create_in_memory" THEN None ELSE Some("test.xlsx")
        /\ shared_strings = IF ctor = "create" THEN SharedStringsNew
                            ELSE SharedStringsNewUnused
        /\ hist = [NoHist EXCEPT !.ctor = ctor]
    /\ archive_files = <<>>
    /\ max_sheet_index = 0
    /\ sheets = <<>>
    /\ calc_chain = <<>>
    /\ saved = FALSE
    /\ dropped = FALSE
    /\ sheet = <<>>
    /\ writer = <<>>
    /\ sw = NoSession
    /\ caller_row = RowNew
    /\ cell_formats = CellFormatsNew

\* wb.create_sheet(name); the caller keeps the Sheet returned
CreateSheet ==
    /\ ~dropped /\ ~sw.open
    /\ hist.ops < MaxCalls
    /\ \E sheet_name \in SheetNames :
        LET r == create_sheet(max_sheet_index, sheet_name) IN
        /\ max_sheet_index' = r.max_sheet_index
        /\ sheets' = Append(sheets, r.ref)
        /\ sheet' = Append(sheet, r.sheet)
        /\ writer' = Append(writer, <<>>)
        /\ hist' = [hist EXCEPT !.ops = @ + 1, !.returned = Append(@, r.sheet.id)]
    /\ UNCHANGED <<letterVars, caller_row, cell_formats, xlsx_file, archive_files, shared_strings, calc_chain,
                   saved, dropped, sw>>

\* wb.write_sheet(&mut sheet, closure), up to the call of the closure
WriteSheetBegin ==
    /\ ~dropped /\ ~sw.open
    /\ hist.ops < MaxCalls
    /\ \E k \in 1..Len(sheet) :
        /\ calc_chain' = calc_chain \o tagged(sheet[k].calc_chain, sheet[k].id)
        /\ writer' = [writer EXCEPT ![k] = write_head(sheet[k]) \o write_data_begin]
        /\ sw' = [open |-> TRUE, id |-> k]
    /\ hist' = [hist EXCEPT !.ops = @ + 1, !.session = <<>>]
    /\ UNCHANGED <<letterVars, caller_row, cell_formats, xlsx_file, archive_files, max_sheet_index,
                   shared_strings, sheets, saved, dropped, sheet>>

\* the formula texts of the Formula cells of a row, in cell order
FormulaCells(row) ==
    LET tags == [i \in 1..Len(row.cells) |-> row.cells[i].value.value.tag]
        pos == {i \in 1..Len(row.cells) : tags[i] = "Formula"}
        RECURSIVE from(_)
        from(i) == IF i > Len(row.cells) THEN <<>>
                   ELSE (IF i \in pos THEN <<row.cells[i].value.value.v>> ELSE <<>>)
                        \o from(i + 1)
    IN  from(1)

\* inside the closure: sheet_writer.append_row(row![..])
AppendRow ==
    /\ sw.open
    /\ hist.ops < MaxCalls
    /\ \E j \in 1..Len(WorkbookRows) :
        LET row0 == row_macro(WorkbookRows[j])
            r == append_row(sheet[sw.id], writer[sw.id], shared_strings, row0)
        IN  /\ sheet' = [sheet EXCEPT ![sw.id] = r.sheet]
            /\ writer' = [writer EXCEPT ![sw.id] = r.writer]
            /\ shared_strings' = r.shared
            /\ hist' = [hist EXCEPT !.ops = @ + 1,
                                    !.session = @ \o FormulaCells(row0),
                                    !.lastAppend =
                                        [called |-> TRUE, row |-> row0,
                                         out |-> r.writer[Len(r.writer)].c]]
    /\ UNCHANGED <<letterVars, caller_row, cell_formats, wbVars, sw>>

\* the closure returns (Ok or Err) and write_sheet runs to its end
WriteSheetEnd ==
    /\ sw.open
    /\ hist.ops < MaxCalls
    /\ \E ok \in BOOLEAN :
        LET sh == sheet[sw.id]
            data == writer[sw.id] \o write_data_end(sh) \o write_merged_cells(sh)
                    \o sheet_close
        IN  /\ archive_files' =
                  write_sheet_finish(archive_files, sheet_root(sh.id), data, ok)
            /\ hist' = [hist EXCEPT
                          !.ops = @ + 1,
                          !.okWrites = IF ok THEN Append(@, sh.id) ELSE @,
                          !.failedWrites = IF ok THEN @ ELSE Append(@, sh.id),
                          !.session = <<>>,
                          !.lastAppend = NoAppend,
                          !.lastWrite = [called |-> TRUE, ok |-> ok, id |-> sh.id,
                                         formulas |-> hist.session]]
    /\ writer' = [writer EXCEPT ![sw.id] = <<>>]
    /\ sw' = NoSession
    /\ UNCHANGED <<letterVars, caller_row, cell_formats, xlsx_file, max_sheet_index, shared_strings, sheets,
                   calc_chain, saved, dropped, sheet>>

\* Workbook::close: create_files, then the archive is written (ok) or a zip or
\* file error is returned (~ok)
\* by: "close" for a call of the caller, "drop" for the call drop makes
DoClose(ok, by) ==
    \E files \in {create_files(archive_files, sheets, shared_strings, calc_chain,
                               cell_formats)} :
    LET fin == close_finish(xlsx_file, saved)
    IN  /\ archive_files' = files
        /\ saved' = IF ok THEN fin.saved ELSE saved
        /\ hist' = [hist EXCEPT
                      !.ops = @ + 1,
                      !.closes = @ + 1,
                      !.explicitOk = IF ok /\ by = "close" THEN @ + 1 ELSE @,
                      !.fileWrites = IF ok /\ xlsx_file.some THEN @ + 1 ELSE @,
                      !.dropClosed = (by = "drop"),
                      !.lastClose = [called |-> TRUE, ok |-> ok,
                                     ret |-> IF ok THEN fin.ret ELSE "Err",
                                     entries |-> [i \in 1..Len(files) |->
                                                    path_format(files[i].name)],
                                     n |-> Len(sheets),
                                     writes |-> hist.okWrites,
                                     failed |-> hist.failedWrites]]

\* wb.close()
Close ==
    /\ ~dropped /\ ~sw.open
    /\ hist.ops < MaxCalls
    /\ \E ok \in BOOLEAN : DoClose(ok, "close")
    /\ UNCHANGED <<letterVars, caller_row, cell_formats, xlsx_file, max_sheet_index, shared_strings, sheets,
                   calc_chain, dropped, sheet, writer, sw>>

drop_closes_unsaved(is_saved, file) == ~is_saved

\* the condition of drop: !self.saved && self.xlsx_file.is_some()
drop_closes(is_saved, file) == ~is_saved /\ file.some

\* impl Drop for Workbook
Drop ==
    /\ ~dropped /\ ~sw.open
    /\ hist.ops < MaxCalls
    /\ dropped' = TRUE
    /\ IF drop_closes(saved, xlsx_file)
       THEN \E ok \in BOOLEAN : DoClose(ok, "drop")
       ELSE /\ hist' = [hist EXCEPT !.ops = @ + 1]
            /\ UNCHANGED <<archive_files, saved>>
    /\ UNCHANGED <<letterVars, caller_row, cell_formats, xlsx_file, max_sheet_index, shared_strings, sheets,
                   calc_chain, sheet, writer, sw>>

Next == CreateSheet \/ WriteSheetBegin \/ AppendRow \/ WriteSheetEnd \/ Close \/ Drop

Spec == Init /\ [][Next]_vars

-----------------------------------------------------------------------------
(* Vocabulary of the claims about the package *)

CountIn(seq, x) == Cardinality({i \in 1..Len(seq) : seq[i] = x})

\* the ten fixed entry paths of the package
SkeletonPaths ==
    {"[Content_Types].xml", "_rels/.rels", "docProps/app.xml", "docProps/core.xml",
     "xl/workbook.xml", "xl/_rels/workbook.xml.rels", "xl/styles.xml",
     "xl/sharedStrings.xml", "xl/theme/theme1.xml", "xl/calcChain.xml"}

SheetPath(k) == "xl/worksheets/sheet" \o fmt_usize(k) \o ".xml"

IsWorksheetEntry(path) == path \notin SkeletonPaths

\* the worksheet entries of an entry list, in their order
WorksheetEntries(entries) == SelectSeq(entries, IsWorksheetEntry)

EntryPaths == [i \in 1..Len(archive_files) |-> path_format(archive_files[i].name)]

-----------------------------------------------------------------------------
(* C4 *)

\* C4: the k-th create_sheet call returns a Sheet of id k and records a sheet
\* reference of id k: the recorded ids are 1..N in creation order, whatever
\* other calls are made in between.
C4_SheetIdsAreOrdinals ==
    /\ Len(sheets) = Len(hist.returned)
    /\ max_sheet_index = Len(sheets)
    /\ \A k \in 1..Len(hist.returned) :
          /\ hist.returned[k] = k
          /\ sheets[k].id = k
          /\ sheet[k].id = k

\* C4 witness: a second sheet was created after the first was written and the
\* workbook closed
C4_Witness ==
    /\ Len(sheets) = 2
    /\ hist.lastClose.called /\ hist.lastClose.n = 1
    /\ hist.okWrites = <<1>>

-----------------------------------------------------------------------------
(* C5 *)

\* C5: when write_sheet has returned Ok, the workbook calc-chain holds, tagged
\* with the sheet's id, an entry for every formula cell appended to the sheet
\* during that call.
C5_CalcChainHoldsSessionFormulas ==
    (hist.lastWrite.called /\ hist.lastWrite.ok) =>
        \A f \in Range(hist.lastWrite.formulas) :
            CountIn(calc_chain, <<f, hist.lastWrite.id>>)
                >= CountIn(hist.lastWrite.formulas, f)

-----------------------------------------------------------------------------
(* C6 *)

PackageHasOnePartPerSheet(entries, n) ==
    /\ \A p \in SkeletonPaths : CountIn(entries, p) >= 1
    /\ \A k \in 1..n : CountIn(entries, SheetPath(k)) = 1
    /\ Range(entries) \subseteq (SkeletonPaths \cup {SheetPath(k) : k \in 1..n})
    /\ Len(WorksheetEntries(entries)) = n

InMemoryClosed ==
    /\ ~xlsx_file.some
    /\ hist.lastClose.called /\ hist.lastClose.ok

\* C6 as stated: the package a successful close of an in-memory workbook with N
\* created sheets produces holds the skeleton parts and exactly one
\* xl/worksheets/sheet{K}.xml for each K in 1..N, and no other entry.
C6_OnePartPerCreatedSheet ==
    InMemoryClosed =>
        PackageHasOnePartPerSheet(hist.lastClose.entries, hist.lastClose.n)

\* for each K in 1..n exactly one write_sheet call with a Sheet of id K has
\* returned Ok, and none with another id
EachWrittenOnce(writes, n) ==
    /\ \A k \in 1..n : CountIn(writes, k) = 1
    /\ Range(writes) \subseteq 1..n

\* C6 as amended: the same, for a workbook in which exactly one write_sheet
\* call has returned Ok for each of the N created sheets.
C6_OnePartPerWrittenSheet ==
    (InMemoryClosed /\ EachWrittenOnce(hist.lastClose.writes, hist.lastClose.n)) =>
        PackageHasOnePartPerSheet(hist.lastClose.entries, hist.lastClose.n)

\* C6 witness: an in-memory workbook with two sheets, each written once, closed
C6_Witness ==
    /\ InMemoryClosed
    /\ hist.lastClose.n = 2
    /\ EachWrittenOnce(hist.lastClose.writes, 2)

-----------------------------------------------------------------------------
(* C7 *)

PackageAssembled == hist.lastClose.called /\ hist.lastClose.ok

\* C7 as stated: in the package close assembles, the k-th worksheet entry is
\* xl/worksheets/sheet{k}.xml, in whatever order write_sheet was called on the
\* created sheets (each of them written once).
C7_EntriesInCreationOrder ==
    (PackageAssembled /\ EachWrittenOnce(hist.lastClose.writes, hist.lastClose.n)) =>
        LET w == WorksheetEntries(hist.lastClose.entries) IN
        \A k \in 1..Len(w) : w[k] = SheetPath(k)

\* C7 as amended: the worksheet entries are in the order of the write_sheet
\* calls that returned Ok: the k-th worksheet entry is the part of the sheet
\* passed to the k-th such call.
C7_EntriesInWriteOrder ==
    PackageAssembled =>
        LET w == WorksheetEntries(hist.lastClose.entries) IN
        /\ Len(w) = Len(hist.lastClose.writes)
        /\ \A k \in 1..Len(w) : w[k] = SheetPath(hist.lastClose.writes[k])

\* C7 witness: the second sheet was written before the first, then close
C7_Witness ==
    /\ PackageAssembled
    /\ hist.lastClose.writes = <<2, 1>>

-----------------------------------------------------------------------------
(* C8 *)

\* C8: a workbook without a destination path never has its saved flag set and
\* its successful close returns Some(bytes); the successful close of a workbook
\* with a destination path returns None and sets the saved flag.
C8_CloseResultByConstructor ==
    /\ ~xlsx_file.some => ~saved
    /\ (hist.lastClose.called /\ hist.lastClose.ok) =>
          IF xlsx_file.some
          THEN hist.lastClose.ret = "None" /\ saved
          ELSE hist.lastClose.ret = "Some" /\ ~saved

\* C8 witness: an in-memory workbook with a written sheet was closed successfully
C8_Witness ==
    /\ InMemoryClosed
    /\ hist.lastClose.ret = "Some"
    /\ hist.lastClose.writes = <<1>>

-----------------------------------------------------------------------------
(* C9 *)

\* C9: every close call appends the ten skeleton parts again: after c close
\* calls each skeleton path is c times in the accumulated entry list and in the
\* list the last close packaged, while each worksheet entry is there once per
\* write_sheet call that returned Ok (twice and once for the second close).
C9_CloseNotIdempotent ==
    /\ \A paths \in {EntryPaths} :
          /\ \A p \in SkeletonPaths : CountIn(paths, p) = hist.closes
          /\ \A k \in 1..max_sheet_index :
                CountIn(paths, SheetPath(k)) = CountIn(hist.okWrites, k)
    /\ hist.lastClose.called =>
          /\ \A p \in SkeletonPaths : CountIn(hist.lastClose.entries, p) = hist.closes
          /\ \A k \in 1..max_sheet_index :
                CountIn(hist.lastClose.entries, SheetPath(k))
                    = CountIn(hist.lastClose.writes, k)

\* C9 witness: a second close of a workbook with one written sheet
C9_Witness ==
    /\ hist.closes = 2
    /\ hist.lastClose.writes = <<1>>
    /\ CountIn(hist.lastClose.entries, "xl/workbook.xml") = 2
    /\ CountIn(hist.lastClose.entries, SheetPath(1)) = 1

-----------------------------------------------------------------------------
(* C10 *)

SheetTarget(s) == "worksheets/sheet" \o fmt_usize(s) \o ".xml"

\* the workbook.xml parts in the archive, each with the workbook.xml.rels part
\* the same create_files call rendered
RenderedPairs ==
    {i \in 1..Len(archive_files) : path_format(archive_files[i].name) = "xl/workbook.xml"}

\* C10: for every sheet with id s listed in a rendered xl/workbook.xml, its
\* r:id is rId{s+2}, exactly one relationship of the xl/_rels/workbook.xml.rels
\* rendered with it targets worksheets/sheet{s}.xml, that relationship has the
\* Id rId{s+2}, and no other relationship of that file has this Id.
C10_SheetRelationshipIds ==
    \A i \in RenderedPairs :
        /\ i + 2 <= Len(archive_files)
        /\ path_format(archive_files[i + 2].name) = "xl/_rels/workbook.xml.rels"
        /\ LET listed == archive_files[i].data.sheet
               rel == archive_files[i + 2].data.rel
           IN  \A k \in 1..Len(listed) :
                 LET s == listed[k].sheetId
                     targets == {j \in 1..Len(rel) : rel[j].Target = SheetTarget(s)}
                 IN  /\ s = k
                     /\ listed[k].rid = "rId" \o fmt_usize(s + 2)
                     /\ Cardinality(targets) = 1
                     /\ \A j \in 1..Len(rel) :
                           (rel[j].Id = listed[k].rid) <=> (j \in targets)

\* C10 witness: a workbook with two sheets has been closed
C10_Witness ==
    \E i \in RenderedPairs : Len(archive_files[i].data.sheet) = 2

-----------------------------------------------------------------------------
(* Merged cells: the merge operations of a SheetWriter on one sheet *)

MaxMerges == 2

\* the (column, row) pairs given to merge_cells
MergePoints == ({0, 1, 2} \X {1, 2}) \cup {<<3, 4>>}

\* the 1-based starts and the sizes given to merge_area
AreaStarts == {<<1, 1>>, <<2, 1>>, <<1, 2>>}
AreaSizes == {0, 1, 2}

\* the cell references given to merge_range
RangeRefs == {"A1", "B2"}

InitMerge ==
    /\ column_index = 1
    /\ result = <<>>
    /\ letters = ""
    /\ WorkbookDefault
    /\ shared_strings = SharedStringsNewUnused
    /\ sheet = <<SheetNew(1, <<"S">>)>>
    /\ writer = <<<<>>>>
    /\ sw = NoSession
    /\ caller_row = RowNew
    /\ cell_formats = CellFormatsNew
    /\ hist = NoHist

\* a merge call returned (or panicked): the sheet and the record of the call
Merged(op, args, r) ==
    /\ sheet' = [sheet EXCEPT ![1] = r.sheet]
    /\ hist' = [hist EXCEPT !.ops = @ + 1,
                            !.lastMerge = [called |-> TRUE, op |-> op, args |-> args,
                                           ret |-> r.ret,
                                           before |-> sheet[1].merged_cells]]

CanMerge == hist.ops < MaxMerges /\ hist.lastMerge.ret # "panic"

\* sheet_writer.merge_cells(start, end)
MergeCells ==
    /\ CanMerge
    /\ \E start \in MergePoints, end \in MergePoints, overflow_checks \in BOOLEAN :
        Merged("merge_cells", <<start, end>>,
               merge_cells(sheet[1], start, end, overflow_checks))
    /\ UNCHANGED <<letterVars, caller_row, cell_formats, wbVars, shared_strings, writer, sw>>

\* sheet_writer.merge_area(start, width, height)
MergeArea ==
    /\ CanMerge
    /\ \E start \in AreaStarts, width \in AreaSizes, height \in AreaSizes,
          overflow_checks \in BOOLEAN :
        Merged("merge_area", <<start, width, height>>,
               merge_area(sheet[1], start, width, height, overflow_checks))
    /\ UNCHANGED <<letterVars, caller_row, cell_formats, wbVars, shared_strings, writer, sw>>

\* sheet_writer.merge_range(start_ref, end_ref)
MergeRange ==
    /\ CanMerge
    /\ \E start_ref \in RangeRefs, end_ref \in RangeRefs :
        Merged("merge_range", <<start_ref, end_ref>>,
               merge_range(sheet[1], start_ref, end_ref))
    /\ UNCHANGED <<letterVars, caller_row, cell_formats, wbVars, shared_strings, writer, sw>>

NextMerge == MergeCells \/ MergeArea \/ MergeRange

SpecMerge == InitMerge /\ [][NextMerge]_vars

-----------------------------------------------------------------------------
(* C11 *)

LastMergeIs(op) == hist.lastMerge.called /\ hist.lastMerge.op = op

\* the merged-cell list is the list before the last call plus one range
OneRangeAppended ==
    /\ Len(sheet[1].merged_cells) = Len(hist.lastMerge.before) + 1
    /\ SubSeq(sheet[1].merged_cells, 1, Len(hist.lastMerge.before))
          = hist.lastMerge.before

NothingAppended == sheet[1].merged_cells = hist.lastMerge.before

Ordered(start, end) == end[1] >= start[1] /\ end[2] >= start[2]

\* C11 as stated: merge_cells(start, end) returns Ok and appends exactly one
\* merged range if and only if end.0 >= start.0 and end.1 >= start.1; otherwise
\* it returns the invalid-range error and leaves the merged-cell list unchanged.
C11_MergeCellsOkIffOrdered ==
    LastMergeIs("merge_cells") =>
        LET start == hist.lastMerge.args[1]
            end == hist.lastMerge.args[2]
        IN  IF Ordered(start, end)
            THEN hist.lastMerge.ret = "Ok" /\ OneRangeAppended
            ELSE hist.lastMerge.ret = "Err" /\ NothingAppended

\* C11 as amended: the same for a 1-based start column (start.0 >= 1); for
\* start.0 = 0 the call reaches column_letter(0).
C11_MergeCellsOkIffOrderedOneBased ==
    (LastMergeIs("merge_cells") /\ hist.lastMerge.args[1][1] >= 1) =>
        LET start == hist.lastMerge.args[1]
            end == hist.lastMerge.args[2]
        IN  IF Ordered(start, end)
            THEN hist.lastMerge.ret = "Ok" /\ OneRangeAppended
            ELSE hist.lastMerge.ret = "Err" /\ NothingAppended

\* C11 witness: after an accepted merge_cells, one whose end is before its start
\* on the row axis only was rejected
C11_Witness ==
    /\ LastMergeIs("merge_cells")
    /\ hist.lastMerge.args = << <<1, 2>>, <<2, 1>> >>
    /\ hist.lastMerge.ret = "Err"
    /\ Len(hist.lastMerge.before) = 1
    /\ hist.ops = 2

-----------------------------------------------------------------------------
(* C12 *)

\* the text of a stored range, as write_merged_cells emits it
RangeText(mc) == mc.start_ref \o ":" \o mc.end_ref

LastRange == sheet[1].merged_cells[Len(sheet[1].merged_cells)]

SpecExampleMerged ==
    /\ LastMergeIs("merge_cells")
    /\ hist.lastMerge.args = << <<1, 2>>, <<3, 4>> >>

\* C12 as stated: merge_cells((1,2),(3,4)) succeeds and the range it records is
\* "B2:D4".
C12_RecordsB2D4 ==
    SpecExampleMerged =>
        /\ hist.lastMerge.ret = "Ok"
        /\ OneRangeAppended
        /\ RangeText(LastRange) = "B2:D4"

\* C12 as amended: merge_cells((1,2),(3,4)) succeeds and the range it records is
\* "A2:C4": a pair is (column, row), so (1,2) is column A row 2 and (3,4) is
\* column C row 4.
C12_RecordsA2C4 ==
    SpecExampleMerged =>
        /\ hist.lastMerge.ret = "Ok"
        /\ OneRangeAppended
        /\ LastRange = MergedCell("A2", "C4")
        /\ RangeText(LastRange) = "A2:C4"

\* C12 witness: merge_cells((1,2),(3,4)) was called on a sheet that had a range
C12_Witness ==
    /\ SpecExampleMerged
    /\ Len(hist.lastMerge.before) = 1
    /\ Len(sheet[1].merged_cells) = 2

-----------------------------------------------------------------------------
(* C13 *)

\* the (column, row) pairs a stored reference can name (column 0: a reference
\* without column letters)
RefPairs == (0..4) \X (0..4)

IsCellRef(ref) == \E p \in RefPairs : ref_id(p[1], p[2]) = ref

\* the (column, row) pair a cell reference names
CellOf(ref) == CHOOSE p \in RefPairs : ref_id(p[1], p[2]) = ref

RangeOrdered(mc) ==
    /\ IsCellRef(mc.start_ref) /\ IsCellRef(mc.end_ref)
    /\ Ordered(CellOf(mc.start_ref), CellOf(mc.end_ref))

\* C13: after any sequence of merge_cells, merge_area and merge_range calls,
\* every stored range has its end column >= its start column and its end row >=
\* its start row; a request that violates this is rejected and stores nothing.
C13_StoredRangesOrdered ==
    /\ \A i \in 1..Len(sheet[1].merged_cells) : RangeOrdered(sheet[1].merged_cells[i])
    /\ (/\ LastMergeIs("merge_range")
        /\ ~Ordered(CellOf(hist.lastMerge.args[1]), CellOf(hist.lastMerge.args[2])))
          => (hist.lastMerge.ret = "Err" /\ NothingAppended)

-----------------------------------------------------------------------------
(* C14 *)

\* C14: merge_area(start, width, height) with a 1-based start records the range
\* from start to (start.0 + width - 1, start.1 + height - 1) when width >= 1
\* and height >= 1 (the single cell start:start for width = height = 1), and
\* returns an error and records nothing when width = 0 or height = 0.
C14_MergeAreaBySize ==
    LastMergeIs("merge_area") =>
        LET start == hist.lastMerge.args[1]
            width == hist.lastMerge.args[2]
            height == hist.lastMerge.args[3]
            start_ref == ref_id(start[1], start[2])
        IN  /\ start[1] >= 1 /\ start[2] >= 1
            /\ (width >= 1 /\ height >= 1) =>
                  /\ hist.lastMerge.ret = "Ok"
                  /\ OneRangeAppended
                  /\ LastRange.start_ref = start_ref
                  /\ LastRange.end_ref = ref_id(start[1] + width - 1, start[2] + height - 1)
                  /\ (width = 1 /\ height = 1) => LastRange = MergedCell(start_ref, start_ref)
                  /\ CellOf(LastRange.end_ref) = <<start[1] + width - 1, start[2] + height - 1>>
            /\ (width = 0 \/ height = 0) =>
                  /\ hist.lastMerge.ret = "Err"
                  /\ NothingAppended

\* C14 witness: after a 2 by 2 area was merged at B1 (B1:C2), an area of width 0
\* was rejected
C14_Witness ==
    /\ LastMergeIs("merge_area")
    /\ hist.lastMerge.args[2] = 0 /\ hist.lastMerge.args[3] = 1
    /\ hist.lastMerge.ret = "Err"
    /\ hist.lastMerge.before = <<MergedCell("B1", "C2")>>

-----------------------------------------------------------------------------
(* Autofilter: Sheet::add_auto_filter and the worksheet part SheetWriter::write *)
(* emits for the sheet                                                        *)

MaxFilterOps == 2

\* the columns and rows given to add_auto_filter
FilterCols == {0, 1, 4}
FilterRows == {0, 1, 21}

InitFilter ==
    /\ column_index = 1
    /\ result = <<>>
    /\ letters = ""
    /\ WorkbookDefault
    /\ shared_strings = SharedStringsNewUnused
    /\ sheet = <<SheetNew(1, <<"S">>)>>
    /\ writer = <<<<>>>>
    /\ sw = NoSession
    /\ caller_row = RowNew
    /\ cell_formats = CellFormatsNew
    /\ hist = NoHist

\* sheet.add_auto_filter(start_col, end_col, start_row, end_row)
AddAutoFilter ==
    /\ hist.ops < MaxFilterOps
    /\ \E start_col \in FilterCols, end_col \in FilterCols,
          start_row \in FilterRows, end_row \in FilterRows :
        /\ sheet' = [sheet EXCEPT ![1] = add_auto_filter(@, start_col, end_col,
                                                          start_row, end_row)]
        /\ hist' = [hist EXCEPT
                      !.ops = @ + 1,
                      !.lastFilter = [called |-> TRUE,
                                      args |-> <<start_col, end_col, start_row, end_row>>,
                                      before |-> sheet[1].auto_filter]]
    /\ UNCHANGED <<letterVars, caller_row, cell_formats, wbVars, shared_strings, writer, sw>>

\* SheetWriter::new(&mut sheet, &mut buffer, ..).write(|_| Ok(())) into a new buffer
SheetWrite ==
    /\ hist.ops < MaxFilterOps
    /\ writer' = [writer EXCEPT ![1] =
                     write_head(sheet[1]) \o write_data_begin \o write_data_end(sheet[1])
                     \o write_merged_cells(sheet[1]) \o sheet_close]
    /\ hist' = [hist EXCEPT !.ops = @ + 1]
    /\ UNCHANGED <<letterVars, caller_row, cell_formats, wbVars, shared_strings, sheet, sw>>

NextFilter == AddAutoFilter \/ SheetWrite

SpecFilter == InitFilter /\ [][NextFilter]_vars

-----------------------------------------------------------------------------
(* C15 *)

ValidFilter(a) == a[1] >= 1 /\ a[3] >= 1 /\ a[1] <= a[2] /\ a[3] <= a[4]

\* letter(start_col)start_row:letter(end_col)end_row
FilterRange(a) ==
    column_letter(a[1]) \o fmt_usize(a[3]) \o ":" \o column_letter(a[2]) \o fmt_usize(a[4])

FilterExamples ==
    << << <<1, 1, 1, 1>>, "A1:A1" >>, << <<1, 4, 1, 21>>, "A1:D21" >> >>

\* the autoFilter elements of an emitted worksheet part
AutoFilterElements(part) == SelectSeq(part, LAMBDA e : e.el = "autoFilter")

FilterSetTo(a) ==
    /\ sheet[1].auto_filter.some
    /\ auto_filter_to_string(sheet[1].auto_filter.v) = FilterRange(a)
    /\ \A i \in 1..Len(FilterExamples) :
          a = FilterExamples[i][1] =>
              auto_filter_to_string(sheet[1].auto_filter.v) = FilterExamples[i][2]
    /\ AutoFilterElements(write_data_end(sheet[1]))
          = <<[el |-> "autoFilter", ref |-> FilterRange(a)]>>

FilterUnset ==
    /\ ~sheet[1].auto_filter.some
    /\ AutoFilterElements(write_data_end(sheet[1])) = <<>>

\* C15 as stated: after add_auto_filter(start_col, end_col, start_row, end_row)
\* with start_col >= 1, start_row >= 1, start_col <= end_col and start_row <=
\* end_row the sheet's autofilter range is
\* letter(start_col)start_row:letter(end_col)end_row; after a call with
\* (0,0,0,0) or with start > end on either axis the sheet's autofilter is
\* unset and no autoFilter element is emitted.
C15_InvalidFilterUnset ==
    hist.lastFilter.called =>
        IF ValidFilter(hist.lastFilter.args)
        THEN FilterSetTo(hist.lastFilter.args)
        ELSE FilterUnset

\* C15 as amended: a call with an invalid range leaves the sheet's autofilter
\* as it was before the call: unset (no autoFilter element) on a sheet that had
\* none, the earlier range on a sheet that had one.
C15_InvalidFilterUnchanged ==
    /\ hist.lastFilter.called =>
          IF ValidFilter(hist.lastFilter.args)
          THEN FilterSetTo(hist.lastFilter.args)
          ELSE /\ sheet[1].auto_filter = hist.lastFilter.before
               /\ ~hist.lastFilter.before.some => FilterUnset
    /\ Len(AutoFilterElements(writer[1])) <= 1
    /\ (writer[1] # <<>> /\ ~sheet[1].auto_filter.some) =>
          AutoFilterElements(writer[1]) = <<>>

\* C15 witness: add_auto_filter(0,0,0,0) was called on a sheet whose autofilter
\* add_auto_filter(1,4,1,21) had set, and the range is still A1:D21
C15_Witness ==
    /\ hist.lastFilter.called
    /\ hist.lastFilter.args = <<0, 0, 0, 0>>
    /\ hist.lastFilter.before = Some(AutoFilter("A", "D", 1, 21))
    /\ AutoFilterElements(write_data_end(sheet[1]))
          = <<[el |-> "autoFilter", ref |-> "A1:D21"]>>

-----------------------------------------------------------------------------
(* Rows: add_cell, add_empty_cells and join on a Row the caller builds *)

F64(n) == [ty |-> "f64", v |-> n]
CellValueIn(cv) == [ty |-> "CellValue", v |-> cv]
CellDataIn(cd) == [ty |-> "CellData", v |-> cd]

\* the values given to add_cell (a tuple: they are of different types)
CellInputs ==
    << Str(<<"a">>), Str(<<"=", "A">>), BoolIn(TRUE), F64(7), Unit,
       CellValueIn(Blank(0)), CellValueIn(Blank(1)), CellValueIn(Blank(2)),
       CellDataIn(CellData(Blank(3))), CellValueIn(String(<<"b">>)) >>

EmptyCounts == {0, 1, 2}

\* the rows given to join: built by row!, the second with a column index the
\* caller has overwritten (Cell.column_index is a public field), the last
\* with a formula cell
JoinRows ==
    << row_macro(<<Unit, Str(<<"x">>), BoolIn(FALSE)>>),
       [row_macro(<<Str(<<"y">>)>>) EXCEPT !.cells[1].column_index = 9],
       RowNew,
       row_macro(<<Str(<<"=", "B">>)>>) >>

InitRow ==
    /\ column_index = 1
    /\ result = <<>>
    /\ letters = ""
    /\ WorkbookDefault
    /\ shared_strings = SharedStringsNewUnused
    /\ sheet = <<>>
    /\ writer = <<>>
    /\ sw = NoSession
    /\ caller_row = RowNew
    /\ cell_formats = CellFormatsNew
    /\ hist = NoHist

RECURSIVE CursorsOf(_)
\* the column cursor of each row of a sequence of rows
CursorsOf(rows) ==
    IF rows = <<>> THEN <<>> ELSE <<Head(rows).max_col_index>> \o CursorsOf(Tail(rows))

\* row.add_cell(x)
RowAddCell ==
    /\ hist.ops < MaxOps
    /\ \E k \in 1..Len(CellInputs) :
        LET r == add_cell(caller_row, CellInputs[k]) IN
        /\ caller_row' = r
        /\ hist' = [hist EXCEPT
                      !.ops = @ + 1,
                      !.lastRowOp = [called |-> TRUE, op |-> "add_cell", arg |-> k,
                                     before |-> caller_row],
                      !.cursors = IF Len(r.cells) > Len(caller_row.cells)
                                  THEN Append(@, r.max_col_index) ELSE @]
    /\ UNCHANGED <<letterVars, cell_formats, wbVars, shared_strings, sheet, writer, sw>>

\* row.add_empty_cells(cols)
RowAddEmptyCells ==
    /\ hist.ops < MaxOps
    /\ \E cols \in EmptyCounts :
        /\ caller_row' = add_empty_cells(caller_row, cols)
        /\ hist' = [hist EXCEPT
                      !.ops = @ + 1,
                      !.lastRowOp = [called |-> TRUE, op |-> "add_empty_cells",
                                     arg |-> cols, before |-> caller_row]]
    /\ UNCHANGED <<letterVars, cell_formats, wbVars, shared_strings, sheet, writer, sw>>

\* row.join(other)
RowJoin ==
    /\ hist.ops < MaxOps
    /\ \E k \in 1..Len(JoinRows) :
        /\ caller_row' = join(caller_row, JoinRows[k])
        /\ hist' = [hist EXCEPT
                      !.ops = @ + 1,
                      !.lastRowOp = [called |-> TRUE, op |-> "join", arg |-> k,
                                     before |-> caller_row],
                      !.cursors = @ \o CursorsOf(join_steps(caller_row, JoinRows[k].cells))]
    /\ UNCHANGED <<letterVars, cell_formats, wbVars, shared_strings, sheet, writer, sw>>

NextRow == RowAddCell \/ RowAddEmptyCells \/ RowJoin

SpecRow == InitRow /\ [][NextRow]_vars

-----------------------------------------------------------------------------
(* C16 *)

LastRowOpIs(op) == hist.lastRowOp.called /\ hist.lastRowOp.op = op

\* the value given to add_cell is Blank(n), as a CellValue or in a CellData, or ()
IsBlankInput(x) ==
    \/ x.ty = "unit"
    \/ x.ty = "CellValue" /\ x.v.tag = "Blank"
    \/ x.ty = "CellData" /\ x.v.value.tag = "Blank"

\* the n of a blank input; () counts as Blank(1)
BlankCount(x) ==
    CASE x.ty = "unit" -> 1
      [] x.ty = "CellValue" -> x.v.v
      [] x.ty = "CellData" -> x.v.value.v

\* the <c> elements Row::write emits for a row
CellElements(r) == row_write(r).c

\* C16: for every row state and every n >= 0, add_cell(Blank(n)) stores no cell
\* (no cell element is emitted for it) and leaves the column cursor at the
\* prior cursor + n; the unit value () behaves as Blank(1).
C16_BlankAdvancesCursorOnly ==
    (LastRowOpIs("add_cell") /\ IsBlankInput(CellInputs[hist.lastRowOp.arg])) =>
        LET x == CellInputs[hist.lastRowOp.arg]
            before == hist.lastRowOp.before
        IN  /\ caller_row.cells = before.cells
            /\ CellElements(caller_row) = CellElements(before)
            /\ Len(CellElements(caller_row)) = Len(hist.cursors)
            /\ caller_row.max_col_index = before.max_col_index + BlankCount(x)
            /\ caller_row.calc_chain = before.calc_chain
            /\ x = Unit => caller_row.max_col_index = before.max_col_index + 1

\* C16 witness: add_cell(Blank(2)) on a row with one stored cell and cursor 2
C16_Witness ==
    /\ LastRowOpIs("add_cell")
    /\ CellInputs[hist.lastRowOp.arg].ty = "CellValue"
    /\ CellInputs[hist.lastRowOp.arg].v.tag = "Blank"
    /\ CellInputs[hist.lastRowOp.arg].v.v = 2
    /\ hist.lastRowOp.before.max_col_index = 2
    /\ Len(hist.lastRowOp.before.cells) = 1
    /\ caller_row.max_col_index = 4

-----------------------------------------------------------------------------
(* C17 *)

StoredIndices == [i \in 1..Len(caller_row.cells) |-> caller_row.cells[i].column_index]

\* C17: after any sequence of add_cell, add_empty_cells and join on a row, the
\* column cursor has not decreased, the stored column indices are >= 1 and
\* strictly increasing in storage order, the last of them is <= the cursor, and
\* each is the cursor value at the moment its cell was stored (never an index
\* carried by the input, also for the cells join takes over).
C17_IndicesFromCursor ==
    /\ hist.lastRowOp.called =>
          /\ caller_row.max_col_index >= hist.lastRowOp.before.max_col_index
          /\ Len(caller_row.cells) >= Len(hist.lastRowOp.before.cells)
          /\ SubSeq(caller_row.cells, 1, Len(hist.lastRowOp.before.cells))
                = hist.lastRowOp.before.cells
    /\ \A i \in 1..Len(StoredIndices) : StoredIndices[i] >= 1
    /\ \A i \in 1..(Len(StoredIndices) - 1) : StoredIndices[i] < StoredIndices[i + 1]
    /\ StoredIndices # <<>> => StoredIndices[Len(StoredIndices)] <= caller_row.max_col_index
    /\ StoredIndices = hist.cursors

\* C17 witness: a row with cursor 3 took over, by join, a cell that carried the
\* column index 9; it is stored at index 4
C17_Witness ==
    /\ LastRowOpIs("join")
    /\ JoinRows[hist.lastRowOp.arg].cells # <<>>
    /\ JoinRows[hist.lastRowOp.arg].cells[1].column_index = 9
    /\ hist.lastRowOp.before.max_col_index = 3
    /\ Len(hist.lastRowOp.before.cells) = 1
    /\ StoredIndices[Len(StoredIndices)] = 4

-----------------------------------------------------------------------------
(* Row numbers: append_row and append_blank_rows through the SheetWriters of *)
(* two sheets that share a SharedStrings table                               *)

RowSheets == {1, 2}

\* the rows appended (a tuple: the cells are of different types)
NumberedRows ==
    << << Str(<<"a">>), Str(<<"=", "A", "1">>) >>,
       << Unit >>,
       << Str(<<"b">>) >> >>

BlankRowCounts == {0, 1, 2}

\* two sheets, each with a merged range recorded by merge_cells((1,1),(2,2))
InitRows ==
    /\ column_index = 1
    /\ result = <<>>
    /\ letters = ""
    /\ WorkbookDefault
    /\ shared_strings = SharedStringsNew
    /\ sheet = [s \in RowSheets |->
                  merge_cells(SheetNew(s, <<"S">>), <<1, 1>>, <<2, 2>>, TRUE).sheet]
    /\ writer = [s \in RowSheets |-> <<>>]
    /\ sw = NoSession
    /\ caller_row = RowNew
    /\ cell_formats = CellFormatsNew
    /\ hist = [NoHist EXCEPT !.appended = [s \in RowSheets |-> 0],
                             !.blanks = [s \in RowSheets |-> 0],
                             !.numbered = [s \in RowSheets |-> <<>>]]

\* SheetWriter::new(sheet s, its buffer, the table).append_row(row![xs])
RowsAppendRow ==
    /\ hist.ops < MaxOps
    /\ \E s \in RowSheets, k \in 1..Len(NumberedRows) :
        LET r == append_row(sheet[s], writer[s], shared_strings, row_macro(NumberedRows[k]))
        IN  /\ sheet' = [sheet EXCEPT ![s] = r.sheet]
            /\ writer' = [writer EXCEPT ![s] = r.writer]
            /\ shared_strings' = r.shared
            /\ hist' = [hist EXCEPT
                          !.ops = @ + 1,
                          !.appended[s] = @ + 1,
                          !.numbered[s] = Append(@, <<hist.appended[s], hist.blanks[s]>>)]
    /\ UNCHANGED <<letterVars, caller_row, cell_formats, wbVars, sw>>

\* SheetWriter::new(sheet s, its buffer, the table).append_blank_rows(rows)
RowsAppendBlankRows ==
    /\ hist.ops < MaxOps
    /\ UNCHANGED <<letterVars, caller_row, cell_formats, wbVars, shared_strings, writer, sw>>
    /\ \E s \in RowSheets, rows \in BlankRowCounts :
        LET sh == append_blank_rows(sheet[s], rows) IN
        /\ sheet' = [sheet EXCEPT ![s] = sh]
        /\ hist' = [hist EXCEPT
                      !.ops = @ + 1,
                      !.blanks[s] = @ + rows,
                      !.lastBlank =
                          [called |-> TRUE, sheet |-> s, n |-> rows,
                           before |-> [sheet |-> sheet[s], writer |-> writer,
                                       shared |-> shared_strings],
                           after |-> [sheet |-> sh, writer |-> writer',
                                      shared |-> shared_strings']]]

NextRows == RowsAppendRow \/ RowsAppendBlankRows

SpecRows == InitRows /\ [][NextRows]_vars

-----------------------------------------------------------------------------
(* C18 *)

\* the numbers of the <row> elements emitted for a sheet, in order
RowNumbers(s) == [i \in 1..Len(writer[s]) |-> writer[s][i].r]

\* C18: within a sheet, the number given to an appended row is 1 + the number of
\* rows appended before it + the sum of the n passed to append_blank_rows before
\* it, so emitted row numbers are 1-based and strictly increasing;
\* append_blank_rows(n) changes only the row counter (it emits nothing and
\* touches neither calc-chain, merged cells nor shared strings).
C18_RowNumbers ==
    /\ \A s \in DOMAIN hist.numbered :
          /\ Len(RowNumbers(s)) = Len(hist.numbered[s])
          /\ \A i \in 1..Len(RowNumbers(s)) :
                /\ hist.numbered[s][i][1] = i - 1
                /\ RowNumbers(s)[i] = 1 + (i - 1) + hist.numbered[s][i][2]
                /\ RowNumbers(s)[i] >= 1
                /\ i > 1 => RowNumbers(s)[i - 1] < RowNumbers(s)[i]
          /\ sheet[s].max_row_index = hist.appended[s] + hist.blanks[s]
    /\ hist.lastBlank.called =>
          LET b == hist.lastBlank.before
              a == hist.lastBlank.after
          IN  /\ a.sheet.max_row_index = b.sheet.max_row_index + hist.lastBlank.n
              /\ a.sheet = [b.sheet EXCEPT !.max_row_index = a.sheet.max_row_index]
              /\ a.sheet.calc_chain = b.sheet.calc_chain
              /\ a.sheet.merged_cells = b.sheet.merged_cells
              /\ a.writer = b.writer
              /\ a.shared = b.shared

\* C18 witness: on sheet 1 a row with a formula, append_blank_rows(2), then a
\* row that got the number 4
C18_Witness ==
    /\ hist.numbered # <<>>
    /\ RowNumbers(1) = <<1, 4>>
    /\ hist.lastBlank.called /\ hist.lastBlank.n = 2
    /\ hist.lastBlank.before.sheet.calc_chain # <<>>
    /\ hist.lastBlank.before.sheet.merged_cells # <<>>

-----------------------------------------------------------------------------
(* C19 *)

\* the <c> elements of the rows of an emitted worksheet part
RECURSIVE CellsOfPart(_)
CellsOfPart(part) ==
    IF part = <<>> THEN <<>>
    ELSE (IF Head(part).el = "row" THEN Head(part).c ELSE <<>>) \o CellsOfPart(Tail(part))

\* every <c> element emitted so far: in the buffers of the sheets and in the
\* worksheet entries of the archive
EmittedCells ==
    UNION {Range(CellsOfPart(writer[k])) : k \in 1..Len(writer)}
    \cup UNION {Range(CellsOfPart(archive_files[i].data)) :
                  i \in {j \in 1..Len(archive_files) :
                            IsWorksheetEntry(path_format(archive_files[j].name))}}

IsInlineText(c) == c.t = "str" /\ c.child = "v"
IsSharedRef(c) == c.t = "s"

\* positions of the text cells of the last appended row
TextCells == {i \in 1..Len(hist.lastAppend.row.cells) :
                 hist.lastAppend.row.cells[i].value.value.tag = "String"}

\* C19: in a workbook made by create_simple or create_in_memory no sequence of
\* append_row calls registers anything (the shared-string table stays empty with
\* usage count 0) and every text cell is emitted inline (t="str"); in a workbook
\* made by create every appended text cell is emitted as a shared-string index
\* (t="s") and never inline.
C19_SharedStringsByConstructor ==
    /\ hist.ctor \in {"create_simple", "create_in_memory"} =>
          /\ shared_strings = SharedStringsNewUnused
          /\ \A c \in EmittedCells : ~IsSharedRef(c)
          /\ \A i \in TextCells :
                /\ IsInlineText(hist.lastAppend.out[i])
                /\ hist.lastAppend.out[i].body
                      = from_iter(XmlEscaped(hist.lastAppend.row.cells[i].value.value.v))
    /\ hist.ctor = "create" =>
          /\ shared_strings.used
          /\ \A c \in EmittedCells : ~IsInlineText(c)
          /\ \A i \in TextCells :
                /\ IsSharedRef(hist.lastAppend.out[i])
                /\ \E k \in 1..Len(shared_strings.strings) :
                      /\ hist.lastAppend.out[i].body = fmt_usize(k - 1)
                      /\ shared_strings.strings[k]
                            = XmlEscaped(hist.lastAppend.row.cells[i].value.value.v)

\* C19 witness: a workbook made by create_in_memory in which a row with a text
\* cell was appended to a second sheet after the first was written with one
C19_Witness ==
    /\ hist.ctor = "create_in_memory"
    /\ hist.lastAppend.called /\ TextCells # {}
    /\ hist.okWrites = <<1>> /\ sw.id = 2
    /\ \E c \in EmittedCells : IsInlineText(c) /\ c.r = "A1"

-----------------------------------------------------------------------------
(* Number formats and cell formats: Workbook::add_number_format,
   Workbook::add_cell_xf, styled cells and the styles part written by close *)

MaxStyleOps == 5

\* the format patterns a caller registers; the second needs escaping
StylePatterns == << <<"0", ".", "0">>, <<"\"", "<", "k", ">", "\"", "#">> >>

\* the number of a styled cell
StyledNumber == 7

\* Workbook::create_in_memory(), or Workbook::default() with no cell format
\* at all; one sheet with its buffer
InitStyles ==
    /\ column_index = 1
    /\ result = <<>>
    /\ letters = ""
    /\ WorkbookDefault
    /\ shared_strings = SharedStringsNewUnused
    /\ sheet = [s \in {1} |-> SheetNew(s, <<"S">>)]
    /\ writer = [s \in {1} |-> <<>>]
    /\ sw = NoSession
    /\ caller_row = RowNew
    /\ \E ctor \in {"create_in_memory", "default"} :
        /\ cell_formats = IF ctor = "default" THEN CellFormatsDefault ELSE CellFormatsNew
        /\ hist = [NoHist EXCEPT !.ctor = ctor]

\* workbook.add_number_format(pattern)
AddNumberFormat ==
    /\ hist.ops < MaxStyleOps
    /\ \E k \in 1..Len(StylePatterns) :
        LET r == add_number_format(cell_formats, StylePatterns[k]) IN
        /\ cell_formats' = r.formats
        /\ hist' = [hist EXCEPT
                      !.ops = @ + 1,
                      !.numFmts = Append(@, [pattern |-> StylePatterns[k],
                                             id |-> r.result])]
    /\ UNCHANGED <<letterVars, caller_row, wbVars, shared_strings, sheet, writer, sw>>

\* the NumberFormat values a caller holds: the ones add_number_format returned
HeldNumberFormats == {hist.numFmts[i].id : i \in 1..Len(hist.numFmts)}

\* the Fill and Border values a caller holds: the ones add_fill and add_border
\* returned
HeldFills == {hist.fills[i].id : i \in 1..Len(hist.fills)}
HeldBorders == {hist.borders[i].id : i \in 1..Len(hist.borders)}

\* workbook.add_cell_xf(CellXf { num_fmt, fill, border, ..Default::default() })
AddCellXf ==
    /\ hist.ops < MaxStyleOps
    /\ \E num_fmt \in {None} \cup {Some(id) : id \in HeldNumberFormats},
          fill \in {None} \cup {Some(id) : id \in HeldFills},
          border \in {None} \cup {Some(id) : id \in HeldBorders} :
        LET r == add_cell_xf(cell_formats,
                             [CellXfDefault EXCEPT !.num_fmt = num_fmt, !.fill = fill,
                                                   !.border = border])
        IN  /\ cell_formats' = r.formats
            /\ hist' = [hist EXCEPT
                          !.ops = @ + 1,
                          !.xfs = Append(@, [num_fmt |-> num_fmt, fill |-> fill,
                                             border |-> border, idx |-> r.result])]
    /\ UNCHANGED <<letterVars, caller_row, wbVars, shared_strings, sheet, writer, sw>>

\* the XfFormat values a caller holds: the ones add_cell_xf returned
HeldXfFormats == {hist.xfs[i].idx : i \in 1..Len(hist.xfs)}

\* SheetWriter::new(the sheet, its buffer, the table)
\*     .append_row(row![(StyledNumber, xf)])
StylesAppendRow ==
    /\ hist.ops < MaxStyleOps
    /\ \E xf \in HeldXfFormats :
        LET r == append_row(sheet[1], writer[1], shared_strings,
                            row_macro(<<[ty |-> "f64_xf", v |-> StyledNumber, xf |-> xf]>>))
        IN  /\ sheet' = [sheet EXCEPT ![1] = r.sheet]
            /\ writer' = [writer EXCEPT ![1] = r.writer]
            /\ shared_strings' = r.shared
            /\ hist' = [hist EXCEPT
                          !.ops = @ + 1,
                          !.styled = Append(@, [xf |-> xf, num |-> StyledNumber,
                                                out |-> r.writer[Len(r.writer)].c])]
    /\ UNCHANGED <<letterVars, caller_row, cell_formats, wbVars, sw>>

\* workbook.close() on the in-memory workbook
StylesClose ==
    /\ hist.ops < MaxStyleOps
    /\ \E files \in {create_files(archive_files, sheets, shared_strings, calc_chain,
                                  cell_formats)} :
        /\ archive_files' = files
        /\ saved' = close_finish(xlsx_file, saved).saved
        /\ hist' = [hist EXCEPT
                      !.ops = @ + 1,
                      !.closes = @ + 1,
                      !.rendered = [called |-> TRUE, numFmts |-> Len(hist.numFmts),
                                    xfs |-> Len(hist.xfs)]]
    /\ UNCHANGED <<letterVars, caller_row, cell_formats, xlsx_file, max_sheet_index,
                   sheets, calc_chain, dropped, shared_strings, sheet, writer, sw>>

\* the colour pairs and border formats a caller registers
FillColors == << <<Theme(4), Theme(0)>>, <<Argb(16711935), Argb(255)>> >>
BorderFormats ==
    << [BorderFormatDefault EXCEPT !.top = Some(<<"Thin", Theme(1)>>)],
       [BorderFormatDefault EXCEPT !.left = Some(<<"MediumDashDot", Argb(4080)>>),
                                   !.bottom = Some(<<"Double", Theme(2)>>)] >>

\* workbook.add_fill(fg_color, bg_color)
AddFill ==
    /\ hist.ops < MaxStyleOps
    /\ \E k \in 1..Len(FillColors) :
        LET r == add_fill(cell_formats, FillColors[k][1], FillColors[k][2]) IN
        /\ cell_formats' = r.formats
        /\ hist' = [hist EXCEPT
                      !.ops = @ + 1,
                      !.fills = Append(@, [fg |-> FillColors[k][1], bg |-> FillColors[k][2],
                                           id |-> r.result])]
    /\ UNCHANGED <<letterVars, caller_row, wbVars, shared_strings, sheet, writer, sw>>

\* workbook.add_border(border_format)
AddBorder ==
    /\ hist.ops < MaxStyleOps
    /\ \E k \in 1..Len(BorderFormats) :
        LET r == add_border(cell_formats, BorderFormats[k]) IN
        /\ cell_formats' = r.formats
        /\ hist' = [hist EXCEPT
                      !.ops = @ + 1,
                      !.borders = Append(@, [format |-> BorderFormats[k], id |-> r.result])]
    /\ UNCHANGED <<letterVars, caller_row, wbVars, shared_strings, sheet, writer, sw>>

NextStyles == AddNumberFormat \/ AddCellXf \/ StylesAppendRow \/ StylesClose

SpecStyles == InitStyles /\ [][NextStyles]_vars

\* the four style tables of one workbook and the styles part written by close
NextFormats == AddNumberFormat \/ AddFill \/ AddBorder \/ AddCellXf \/ StylesClose

SpecFormats == InitStyles /\ [][NextFormats]_vars

-----------------------------------------------------------------------------
(* C20 *)

\* the numFmt entries of a styles part
NumFmtEntries(styles) ==
    IF styles.numFmts.some THEN styles.numFmts.v.numFmt ELSE <<>>

\* the xf entries of the cellXfs of a styles part
XfEntries(styles) ==
    IF styles.cellXfs.some THEN styles.cellXfs.v.xf ELSE <<>>

\* exactly one numFmt entry carries the id, and it holds the escaped pattern
HoldsNumFmt(styles, reg) ==
    /\ Cardinality({i \in 1..Len(NumFmtEntries(styles)) :
                       NumFmtEntries(styles)[i].numFmtId = fmt_usize(reg.id)}) = 1
    /\ \A i \in 1..Len(NumFmtEntries(styles)) :
          NumFmtEntries(styles)[i].numFmtId = fmt_usize(reg.id)
          => NumFmtEntries(styles)[i].formatCode = XmlEscaped(reg.pattern)

\* the xf at the (0-based) position returned carries the numFmtId of its format
HoldsXf(styles, reg) ==
    /\ reg.idx + 1 \in 1..Len(XfEntries(styles))
    /\ reg.num_fmt.some =>
          XfEntries(styles)[reg.idx + 1].numFmtId = fmt_usize(reg.num_fmt.v)

\* the styles part holds the first nf registered formats and the first nx
\* registered cell-xfs that reference one of them
StylesHold(styles, nf, nx) ==
    \A j \in 1..nx :
        hist.xfs[j].num_fmt.some =>
            /\ \E i \in 1..nf : hist.numFmts[i].id = hist.xfs[j].num_fmt.v
            /\ \A i \in 1..nf :
                  hist.numFmts[i].id = hist.xfs[j].num_fmt.v
                  => HoldsNumFmt(styles, hist.numFmts[i])
            /\ HoldsXf(styles, hist.xfs[j])

\* the styles part the last close put in the archive
ArchivedStyles ==
    LET at == {i \in 1..Len(archive_files) : archive_files[i].name = root_styles}
    IN  archive_files[CHOOSE i \in at : \A j \in at : j <= i].data

\* a styled cell is one <c> with the returned cell-xf index as its s attribute
StyledCellsCarryIndex ==
    \A k \in 1..Len(hist.styled) :
        /\ Len(hist.styled[k].out) = 1
        /\ hist.styled[k].out[1].s = Some(fmt_usize(hist.styled[k].xf))
        /\ hist.styled[k].out[1].body = fmt_usize(hist.styled[k].num)

\* C20: for a pattern registered with add_number_format and referenced by a
\* cell-xf registered with add_cell_xf, the rendered styles (those of the
\* workbook as it is, and those the last close wrote) hold one numFmt entry
\* with the escaped pattern under the id add_number_format returned, the xf at
\* the position add_cell_xf returned carries that numFmtId, and a cell built
\* from (number, that XfFormat) is emitted with s equal to the returned index.
C20_StyledNumberFormat ==
    /\ \A styles \in {create_styles(cell_formats)} :
          StylesHold(styles, Len(hist.numFmts), Len(hist.xfs))
    /\ hist.rendered.called =>
          \A styles \in {ArchivedStyles} :
              StylesHold(styles, hist.rendered.numFmts, hist.rendered.xfs)
    /\ StyledCellsCarryIndex

\* the escaping pattern was registered second (id 166), a cell-xf referencing
\* it was registered, a cell styled with it was appended, and close rendered it
C20_Witness ==
    /\ hist.ctor = "create_in_memory"
    /\ hist.rendered.called
    /\ \E i \in 1..hist.rendered.numFmts, j \in 1..hist.rendered.xfs,
          k \in 1..Len(hist.styled) :
          /\ hist.numFmts[i].pattern = StylePatterns[2]
          /\ hist.numFmts[i].id = 166
          /\ hist.xfs[j].num_fmt.some
          /\ hist.xfs[j].num_fmt.v = 166
          /\ hist.xfs[j].idx = 3
          /\ hist.styled[k].xf = 3
          /\ hist.styled[k].out[1].s.v = "3"
          /\ XfEntries(ArchivedStyles)[4].numFmtId = "166"
          /\ NumFmtEntries(ArchivedStyles)[2].formatCode # StylePatterns[2]

-----------------------------------------------------------------------------
(* C21 *)

\* the CellXf of a logged add_cell_xf call
LoggedXf(reg) ==
    [CellXfDefault EXCEPT !.num_fmt = reg.num_fmt, !.fill = reg.fill,
                          !.border = reg.border]

\* the first three xf entries are the built-ins: numFmtId 0, 14, 22
BuiltInXfsFirst(styles) ==
    /\ Len(XfEntries(styles)) >= 3
    /\ XfEntries(styles)[1].numFmtId = "0"
    /\ XfEntries(styles)[2].numFmtId = "14"
    /\ XfEntries(styles)[3].numFmtId = "22"

\* the k-th add_cell_xf call returned 2 + k and its entry is rendered there
XfCallsNumbered(styles) ==
    \A k \in 1..Len(hist.xfs) :
        /\ hist.xfs[k].idx = 2 + k
        /\ hist.xfs[k].idx + 1 \in 1..Len(XfEntries(styles))
        /\ XfEntries(styles)[hist.xfs[k].idx + 1] = xf_xml(LoggedXf(hist.xfs[k]))

\* the count attribute of cellXfs is 3 + the number of add_cell_xf calls
XfCountIs(styles) ==
    /\ styles.cellXfs.some
    /\ styles.cellXfs.v.count = fmt_usize(3 + Len(hist.xfs))

\* C21: the cell-xf table starts with the three built-in entries (numFmtId 0,
\* 14, 22 at positions 0, 1, 2), the k-th add_cell_xf call returns 2 + k, its
\* entry is rendered at exactly that position, and the cellXfs count is 3 plus
\* the number of add_cell_xf calls.
C21_CellXfIndices ==
    \A styles \in {create_styles(cell_formats)} :
        /\ BuiltInXfsFirst(styles)
        /\ XfCallsNumbered(styles)
        /\ XfCountIs(styles)

-----------------------------------------------------------------------------
(* C22 *)

\* the k-th call of each table returned base + (k - 1)
ReturnedFromBase ==
    /\ \A k \in 1..Len(hist.numFmts) : hist.numFmts[k].id = 165 + (k - 1)
    /\ \A k \in 1..Len(hist.fills) : hist.fills[k].id = 2 + (k - 1)
    /\ \A k \in 1..Len(hist.borders) : hist.borders[k].id = 1 + (k - 1)

\* the ids a table returned are strictly increasing in call order
Increasing(log) == \A i, j \in 1..Len(log) : i < j => log[i].id < log[j].id

\* every registered number format is still rendered under the id returned
\* for it, one entry per call
NumFmtsKept(styles) ==
    /\ Len(NumFmtEntries(styles)) = Len(hist.numFmts)
    /\ \A k \in 1..Len(hist.numFmts) :
          /\ NumFmtEntries(styles)[k].numFmtId = fmt_usize(hist.numFmts[k].id)
          /\ NumFmtEntries(styles)[k].formatCode = XmlEscaped(hist.numFmts[k].pattern)

\* every returned fill id is the (0-based) position of its entry in the
\* rendered fills, whose count is 2 + the fills registered
FillsAtReturnedPosition(styles) ==
    /\ styles.fills.count = fmt_usize(2 + Len(hist.fills))
    /\ Len(styles.fills.fill) = 2 + Len(hist.fills)
    /\ \A k \in 1..Len(hist.fills) :
          /\ styles.fills.fill[hist.fills[k].id + 1].patternType = "solid"
          /\ styles.fills.fill[hist.fills[k].id + 1].fgColor = color_xml(hist.fills[k].fg)
          /\ styles.fills.fill[hist.fills[k].id + 1].bgColor = color_xml(hist.fills[k].bg)

\* every returned border id is the (0-based) position of its entry in the
\* rendered borders, whose count is 1 + the borders registered
BordersAtReturnedPosition(styles) ==
    /\ styles.borders.count = fmt_usize(1 + Len(hist.borders))
    /\ Len(styles.borders.border) = 1 + Len(hist.borders)
    /\ \A k \in 1..Len(hist.borders) :
          styles.borders.border[hist.borders[k].id + 1] = border_xml(hist.borders[k].format)

\* C22: the k-th add_number_format, add_fill and add_border call return
\* 165 + (k-1), 2 + (k-1) and 1 + (k-1); the ids of each table are strictly
\* increasing and never reused, later registrations renumber nothing and
\* equal entries are not merged, and each fill/border id is the position of
\* its entry in the rendered list, whose count is 2 + fills and 1 + borders.
C22_IndicesFromBase ==
    /\ ReturnedFromBase
    /\ Increasing(hist.numFmts) /\ Increasing(hist.fills) /\ Increasing(hist.borders)
    /\ \A styles \in {create_styles(cell_formats)} :
          /\ NumFmtsKept(styles)
          /\ FillsAtReturnedPosition(styles)
          /\ BordersAtReturnedPosition(styles)

\* the same colours were registered twice (ids 2 and 3), then a border and a
\* number format; both fills are rendered, at positions 2 and 3 of four
C22_Witness ==
    /\ Len(hist.fills) = 2 /\ Len(hist.borders) = 1 /\ Len(hist.numFmts) = 1
    /\ hist.fills[1].fg = hist.fills[2].fg
    /\ hist.fills[1].bg = hist.fills[2].bg
    /\ hist.fills[1].fg.tag = "Argb"
    /\ hist.fills[1].id = 2 /\ hist.fills[2].id = 3
    /\ hist.borders[1].id = 1
    /\ hist.numFmts[1].id = 165
    /\ create_styles(cell_formats).fills.count = "4"
    /\ create_styles(cell_formats).fills.fill[4].fgColor.val = "00FF00FF"
    /\ create_styles(cell_formats).borders.count = "2"

-----------------------------------------------------------------------------
(* C23 *)

\* the number a rendered numFmtId stands for
IdOf(str) == CHOOSE n \in HeldNumberFormats : fmt_usize(n) = str

\* the numFmts block is there iff a custom number format was registered
NumFmtsIffRegistered(styles) == styles.numFmts.some <=> Len(hist.numFmts) > 0

\* the custom formats are listed in ascending id order
NumFmtsAscending(styles) ==
    \A i, j \in 1..Len(NumFmtEntries(styles)) :
        i < j => IdOf(NumFmtEntries(styles)[i].numFmtId)
                 < IdOf(NumFmtEntries(styles)[j].numFmtId)

\* the id an optional attribute of a CellXf counts as
IdOrZero(opt) == IF opt.some THEN opt.v ELSE 0

\* the apply flags of a rendered xf are those of the ids of the CellXf
FlagsOf(entry, xf) ==
    /\ entry.applyNumberFormat <=> IdOrZero(xf.num_fmt) > 0
    /\ entry.applyFont <=> IdOrZero(xf.font) > 0
    /\ entry.applyFill <=> IdOrZero(xf.fill) > 0
    /\ entry.applyBorder <=> IdOrZero(xf.border) > 0

\* a rendered xf carries a flag iff its own id attribute is not 0
FlagsMatchAttributes(entry) ==
    /\ entry.applyNumberFormat <=> entry.numFmtId # "0"
    /\ entry.applyFont <=> entry.fontId # "0"
    /\ entry.applyFill <=> entry.fillId # "0"
    /\ entry.applyBorder <=> entry.borderId # "0"

-----------------------------------------------------------------------------
(* C24 *)

\* no number format, fill, border or cell-xf was registered
NoCustomStyle ==
    /\ hist.numFmts = <<>> /\ hist.fills = <<>>
    /\ hist.borders = <<>> /\ hist.xfs = <<>>

\* an xf with the given numFmtId, applyNumberFormat and no other apply flag
NumberFormatXf(entry, num_fmt_id) ==
    /\ entry.numFmtId = num_fmt_id
    /\ entry.applyNumberFormat
    /\ ~entry.applyFont /\ ~entry.applyFill /\ ~entry.applyBorder

\* the styles part of the test creates_file_and_checks_default_style
DefaultStyles(styles) ==
    /\ ~styles.numFmts.some
    /\ styles.fills.count = "2"
    /\ styles.borders.count = "1"
    /\ Len(XfEntries(styles)) = 3
    /\ NumberFormatXf(XfEntries(styles)[1], "0")
    /\ NumberFormatXf(XfEntries(styles)[2], "14")
    /\ NumberFormatXf(XfEntries(styles)[3], "22")

\* C24: for a workbook in which no custom style was registered, the rendered
\* styles.xml has no numFmts block, fills count 2, borders count 1 and
\* exactly three cell-xfs with numFmtId 0, 14 and 22 in that order, each with
\* applyNumberFormat="1" and no other apply flag.
C24_DefaultStyleSheet ==
    (hist.ctor = "create_in_memory" /\ NoCustomStyle /\ hist.rendered.called)
        => \A styles \in {ArchivedStyles} : DefaultStyles(styles)

-----------------------------------------------------------------------------
(* A caller's Row built by add_cell, add_empty_cells and join, then appended
   to a sheet: Row, SheetWriter::append_row *)

\* a workbook made by create_in_memory with one sheet and its buffer
InitRowSheet ==
    /\ column_index = 1
    /\ result = <<>>
    /\ letters = ""
    /\ WorkbookDefault
    /\ shared_strings = SharedStringsNewUnused
    /\ sheet = [s \in {1} |-> SheetNew(s, <<"S">>)]
    /\ writer = [s \in {1} |-> <<>>]
    /\ sw = NoSession
    /\ caller_row = RowNew
    /\ cell_formats = CellFormatsNew
    /\ hist = NoHist

\* SheetWriter::new(the sheet, its buffer, the table).append_row(row): the
\* row is moved into the call and the caller goes on with Row::new()
RowAppendRow ==
    /\ hist.ops < MaxOps
    /\ \E r \in {append_row(sheet[1], writer[1], shared_strings, caller_row)} :
        /\ sheet' = [sheet EXCEPT ![1] = r.sheet]
        /\ writer' = [writer EXCEPT ![1] = r.writer]
        /\ shared_strings' = r.shared
        /\ caller_row' = RowNew
        /\ hist' = [hist EXCEPT
                      !.ops = @ + 1,
                      !.lastRowOp = NoRowOp,
                      !.cursors = <<>>,
                      !.rowAppend = [called |-> TRUE, row |-> caller_row,
                                     before |-> sheet[1]]]
    /\ UNCHANGED <<letterVars, cell_formats, wbVars, sw>>

NextRowSheet == RowAddCell \/ RowAddEmptyCells \/ RowJoin \/ RowAppendRow

SpecRowSheet == InitRowSheet /\ [][NextRowSheet]_vars

-----------------------------------------------------------------------------
(* C25 *)

RECURSIVE FormulaTexts(_)
\* the texts of the Formula cells of a sequence of cells, in cell order
FormulaTexts(cells) ==
    IF cells = <<>> THEN <<>>
    ELSE (IF Head(cells).value.value.tag = "Formula"
          THEN <<Head(cells).value.value.v>> ELSE <<>>)
         \o FormulaTexts(Tail(cells))

RECURSIVE FormulaCellsWritten(_)
\* the number of <c> elements with an <f> child in a sequence of <row>s
FormulaCellsWritten(rows) ==
    IF rows = <<>> THEN 0
    ELSE Cardinality({i \in 1..Len(Head(rows).c) : Head(rows).c[i].child = "f"})
         + FormulaCellsWritten(Tail(rows))

\* C25: after any sequence of add_cell, add_empty_cells and join the row's
\* calc-chain holds exactly one entry per stored Formula cell, in cell order;
\* append_row appends exactly these entries, in order, to the sheet's
\* calc-chain, which so has one entry per formula cell written to the sheet.
C25_CalcChainPerFormulaCell ==
    /\ caller_row.calc_chain = FormulaTexts(caller_row.cells)
    /\ hist.rowAppend.called =>
          sheet[1].calc_chain
            = hist.rowAppend.before.calc_chain \o FormulaTexts(hist.rowAppend.row.cells)
    /\ Len(sheet[1].calc_chain) = FormulaCellsWritten(writer[1])

-----------------------------------------------------------------------------
(* One sheet with columns, an autofilter and merged ranges, written by
   Workbook::write_sheet: Sheet::add_column, Sheet::add_auto_filter,
   SheetWriter::merge_cells, SheetWriter::append_row, SheetWriter::write *)

MaxDocOps == 6

\* the column widths, autofilter arguments and merge arguments of the caller
DocWidths == {10, 60}
DocFilters == {<<1, 4, 1, 21>>, <<1, 1, 1, 1>>, <<0, 0, 0, 0>>, <<4, 1, 1, 21>>}
DocMerges == {<< <<1, 1>>, <<2, 2>> >>, << <<2, 2>>, <<1, 1>> >>}

\* Workbook::create_in_memory() and one create_sheet
InitDoc ==
    /\ column_index = 1
    /\ result = <<>>
    /\ letters = ""
    /\ xlsx_file = None
    /\ archive_files = <<>>
    /\ calc_chain = <<>>
    /\ saved = FALSE
    /\ dropped = FALSE
    /\ \E r \in {create_sheet(0, <<"S">>)} :
        /\ max_sheet_index = r.max_sheet_index
        /\ sheets = <<r.ref>>
        /\ sheet = <<r.sheet>>
    /\ shared_strings = SharedStringsNewUnused
    /\ writer = <<<<>>>>
    /\ sw = NoSession
    /\ caller_row = RowNew
    /\ cell_formats = CellFormatsNew
    /\ hist = [NoHist EXCEPT !.ctor = "create_in_memory"]

\* sheet.add_column(Column { width }), outside a write session
DocAddColumn ==
    /\ ~sw.open
    /\ hist.ops < MaxDocOps
    /\ \E width \in DocWidths :
        sheet' = [sheet EXCEPT ![1] = add_column(@, Column(width))]
    /\ hist' = [hist EXCEPT !.ops = @ + 1]
    /\ UNCHANGED <<letterVars, caller_row, cell_formats, wbVars, shared_strings, writer, sw>>

\* sheet.add_auto_filter(..), outside a write session
DocAddAutoFilter ==
    /\ ~sw.open
    /\ hist.ops < MaxDocOps
    /\ \E a \in DocFilters :
        /\ sheet' = [sheet EXCEPT ![1] = add_auto_filter(@, a[1], a[2], a[3], a[4])]
        /\ hist' = [hist EXCEPT !.ops = @ + 1, !.filterCalls = Append(@, a)]
    /\ UNCHANGED <<letterVars, caller_row, cell_formats, wbVars, shared_strings, writer, sw>>

\* sheet_writer.merge_cells(start, end), inside the closure or on a
\* SheetWriter of the caller's own
DocMergeCells ==
    /\ hist.ops < MaxDocOps
    /\ \E m \in DocMerges :
        \E r \in {merge_cells(sheet[1], m[1], m[2], TRUE)} :
            /\ sheet' = [sheet EXCEPT ![1] = r.sheet]
            /\ hist' = [hist EXCEPT
                          !.ops = @ + 1,
                          !.docInside = IF sw.open /\ r.ret = "Ok" THEN @ + 1 ELSE @]
    /\ UNCHANGED <<letterVars, caller_row, cell_formats, wbVars, shared_strings, writer, sw>>

\* wb.write_sheet(&mut sheet, closure), up to the call of the closure
DocWriteBegin ==
    /\ ~sw.open
    /\ hist.ops < MaxDocOps
    /\ calc_chain' = calc_chain \o tagged(sheet[1].calc_chain, sheet[1].id)
    /\ writer' = [writer EXCEPT ![1] = write_head(sheet[1]) \o write_data_begin]
    /\ sw' = [open |-> TRUE, id |-> 1]
    /\ hist' = [hist EXCEPT !.ops = @ + 1, !.docRows = <<>>, !.docInside = 0]
    /\ UNCHANGED <<letterVars, caller_row, cell_formats, xlsx_file, archive_files,
                   max_sheet_index, shared_strings, sheets, saved, dropped, sheet>>

\* inside the closure: sheet_writer.append_row(row![..])
DocAppendRow ==
    /\ sw.open
    /\ hist.ops < MaxDocOps
    /\ \E j \in 1..Len(WorkbookRows) :
        \E r \in {append_row(sheet[1], writer[1], shared_strings,
                              row_macro(WorkbookRows[j]))} :
            /\ sheet' = [sheet EXCEPT ![1] = r.sheet]
            /\ writer' = [writer EXCEPT ![1] = r.writer]
            /\ shared_strings' = r.shared
            /\ hist' = [hist EXCEPT !.ops = @ + 1,
                                    !.docRows = Append(@, r.writer[Len(r.writer)])]
    /\ UNCHANGED <<letterVars, caller_row, cell_formats, wbVars, sw>>

\* the closure returns (Ok or Err) and write_sheet runs to its end
DocWriteEnd ==
    /\ sw.open
    /\ hist.ops < MaxDocOps
    /\ \E ok \in BOOLEAN :
        \E data \in {writer[1] \o write_data_end(sheet[1]) \o write_merged_cells(sheet[1])
                      \o sheet_close} :
            /\ archive_files' =
                  write_sheet_finish(archive_files, sheet_root(sheet[1].id), data, ok)
            /\ hist' = [hist EXCEPT
                          !.ops = @ + 1,
                          !.docRows = <<>>,
                          !.docInside = 0,
                          !.lastDoc = [called |-> TRUE, ok |-> ok, sheet |-> sheet[1],
                                       rows |-> hist.docRows, inside |-> hist.docInside,
                                       before |-> archive_files,
                                       filters |-> hist.filterCalls]]
    /\ writer' = [writer EXCEPT ![1] = <<>>]
    /\ sw' = NoSession
    /\ UNCHANGED <<letterVars, caller_row, cell_formats, xlsx_file, max_sheet_index,
                   shared_strings, sheets, calc_chain, saved, dropped, sheet>>

NextDoc ==
    \/ DocAddColumn \/ DocAddAutoFilter \/ DocMergeCells
    \/ DocWriteBegin \/ DocAppendRow \/ DocWriteEnd

SpecDoc == InitDoc /\ [][NextDoc]_vars

-----------------------------------------------------------------------------
(* C26 *)

\* the worksheet part the last write session recorded
LastPart == archive_files[Len(archive_files)].data

\* the positions of the elements of a part with a given name
At(part, el) == {i \in 1..Len(part) : part[i].el = el}

\* the position of an element that occurs once
TheOne(part, el) == CHOOSE i \in At(part, el) : TRUE

\* declaration and root first, closing root tag last, sheetData opened and
\* closed once, in this order
RootAndSheetData(part) ==
    /\ Cardinality(At(part, "worksheet")) = 1
    /\ Cardinality(At(part, "sheetData")) = 1
    /\ Cardinality(At(part, "/sheetData")) = 1
    /\ Cardinality(At(part, "/worksheet")) = 1
    /\ TheOne(part, "worksheet") = 1
    /\ TheOne(part, "/worksheet") = Len(part)
    /\ TheOne(part, "sheetData") < TheOne(part, "/sheetData")

\* a cols block iff a column was registered: between the root and sheetData,
\* the columns numbered 1.. in insertion order
ColsBlock(part, sh) ==
    /\ Cardinality(At(part, "cols")) = (IF Len(sh.columns) > 0 THEN 1 ELSE 0)
    /\ TheOne(part, "sheetData") = (IF Len(sh.columns) > 0 THEN 3 ELSE 2)
    /\ \A i \in At(part, "cols") :
          /\ i = 2
          /\ Len(part[i].col) = Len(sh.columns)
          /\ \A k \in 1..Len(sh.columns) :
                /\ part[i].col[k].min = k /\ part[i].col[k].max = k
                /\ part[i].col[k].width = sh.columns[k].width

\* the rows of the session, in append order, fill sheetData
RowsInOrder(part, rows) ==
    /\ TheOne(part, "/sheetData") = TheOne(part, "sheetData") + Len(rows) + 1
    /\ \A k \in 1..Len(rows) :
          /\ part[TheOne(part, "sheetData") + k].el = "row"
          /\ part[TheOne(part, "sheetData") + k].r = rows[k].r
          /\ part[TheOne(part, "sheetData") + k].c = rows[k].c

\* an autoFilter element iff an autofilter is set, right after sheetData
AutoFilterElement(part, sh) ==
    /\ Cardinality(At(part, "autoFilter")) = (IF sh.auto_filter.some THEN 1 ELSE 0)
    /\ \A i \in At(part, "autoFilter") : i = TheOne(part, "/sheetData") + 1

\* a mergeCells block iff a range was recorded, with the number of ranges as
\* its count, after sheetData and the autoFilter and before the closing tag
MergeCellsBlock(part, sh) ==
    /\ Cardinality(At(part, "mergeCells")) = (IF Len(sh.merged_cells) > 0 THEN 1 ELSE 0)
    /\ \A i \in At(part, "mergeCells") :
          /\ i = Len(part) - 1
          /\ i > TheOne(part, "/sheetData")
          /\ \A j \in At(part, "autoFilter") : j < i
          /\ part[i].count = Len(sh.merged_cells)
          /\ Len(part[i].ref) = Len(sh.merged_cells)

\* nothing else is in the part
NothingElse(part, sh, rows) ==
    Len(part) = 4 + (IF Len(sh.columns) > 0 THEN 1 ELSE 0) + Len(rows)
                  + (IF sh.auto_filter.some THEN 1 ELSE 0)
                  + (IF Len(sh.merged_cells) > 0 THEN 1 ELSE 0)

\* C26: every worksheet part a write session produces is: declaration and
\* root, a cols block iff a column was registered (numbered 1.. in insertion
\* order), sheetData opened, the rows in append order, sheetData closed, an
\* autoFilter element iff an autofilter is set, a mergeCells block iff a range
\* was recorded (count = number of ranges), the closing root tag; ranges
\* recorded inside the closure are emitted after sheetData too.
C26_SheetDocumentOrder ==
    (hist.lastDoc.called /\ hist.lastDoc.ok) =>
        \A part \in {LastPart} :
            /\ RootAndSheetData(part)
            /\ ColsBlock(part, hist.lastDoc.sheet)
            /\ RowsInOrder(part, hist.lastDoc.rows)
            /\ AutoFilterElement(part, hist.lastDoc.sheet)
            /\ MergeCellsBlock(part, hist.lastDoc.sheet)
            /\ NothingElse(part, hist.lastDoc.sheet, hist.lastDoc.rows)

\* a sheet with a column and an autofilter was written with one row and one
\* range merged inside the closure: cols, sheetData, row, autoFilter,
\* mergeCells in this order
C26_Witness ==
    /\ hist.lastDoc.called /\ hist.lastDoc.ok
    /\ hist.lastDoc.inside = 1
    /\ Len(hist.lastDoc.rows) = 1
    /\ Len(hist.lastDoc.sheet.columns) = 1
    /\ hist.lastDoc.sheet.auto_filter.some
    /\ Len(LastPart) = 8
    /\ LastPart[2].el = "cols"
    /\ LastPart[4].el = "row"
    /\ LastPart[6].el = "autoFilter"
    /\ LastPart[7].el = "mergeCells"
    /\ LastPart[7].count = 1

-----------------------------------------------------------------------------
(* C27 *)

\* a write_sheet call returns with the error of its closure
WriteSheetFails == sw.open /\ ~sw'.open /\ ~hist'.lastWrite.ok

\* the entries a close packaged hold one worksheet entry per write_sheet call
\* that returned Ok and none for a call that returned Err
NoPartForFailedSession(close) ==
    /\ Len(WorksheetEntries(close.entries)) = Len(close.writes)
    /\ \A k \in 1..close.n :
          CountIn(close.entries, SheetPath(k)) = CountIn(close.writes, k)

\* C27: if the population closure returns an error, write_sheet returns that
\* error and the archive-entry list is unchanged: no worksheet entry is
\* recorded for the call, so a later close packages no part for it.
C27_FailedWriteRecordsNothing ==
    /\ [][WriteSheetFails =>
             /\ archive_files' = archive_files
             /\ hist'.lastWrite.called /\ hist'.failedWrites # hist.failedWrites]_vars
    /\ [](hist.lastClose.called => NoPartForFailedSession(hist.lastClose))

\* the only write_sheet call of the workbook, made after a row was appended
\* in its closure, returned Err; the close after it packaged the skeleton
\* parts and no worksheet entry
C27_Witness ==
    /\ hist.lastClose.called /\ hist.lastClose.ok
    /\ hist.lastClose.failed = <<1>>
    /\ hist.lastClose.writes = <<>>
    /\ sheet[1].max_row_index = 1
    /\ WorksheetEntries(hist.lastClose.entries) = <<>>
    /\ Len(hist.lastClose.entries) = Cardinality(SkeletonPaths)

-----------------------------------------------------------------------------
(* C28 *)

FileBacked == xlsx_file.some

-----------------------------------------------------------------------------
(* C29 *)

\* the Relationship elements of each xl/_rels/workbook.xml.rels in the archive
WorkbookRels ==
    {archive_files[i].data.rel :
        i \in {j \in 1..Len(archive_files) : archive_files[j].name = root_xl_rels}}

\* C29: for every number N >= 0 of created sheets, the Relationship Ids
\* written to xl/_rels/workbook.xml.rels (theme, styles, one per sheet and
\* sharedStrings) are pairwise distinct.
C29_RelationshipIdsDistinct ==
    \A rel \in WorkbookRels :
        \A j, k \in 1..Len(rel) : j # k => rel[j].Id # rel[k].Id

-----------------------------------------------------------------------------
(* C30 *)

\* a range is invalid if start_col = 0, start_row = 0, start_col > end_col or
\* start_row > end_row
InvalidRange(a) == a[1] = 0 \/ a[3] = 0 \/ a[1] > a[2] \/ a[3] > a[4]

\* the valid calls of a sequence of add_auto_filter calls, in call order
ValidCalls(calls) == SelectSeq(calls, LAMBDA a : ~InvalidRange(a))

\* the autoFilter elements a part holds after the valid calls made: none if
\* there was none, else the range of the last one
ExpectedAutoFilter(calls) ==
    IF ValidCalls(calls) = <<>> THEN <<>>
    ELSE <<[el |-> "autoFilter",
            ref |-> FilterRange(ValidCalls(calls)[Len(ValidCalls(calls))])]>>

\* a step that is an add_auto_filter call
FilterCall == hist'.filterCalls # hist.filterCalls

\* C30: an add_auto_filter call with an invalid range (start_col = 0,
\* start_row = 0, start_col > end_col or start_row > end_row) leaves the whole
\* sheet unchanged, a range set by an earlier valid call included; a valid
\* call replaces the previous range; so the emitted autofilter is always the
\* range of the last valid call.
C30_LastValidFilterWins ==
    /\ [][FilterCall =>
             \A a \in {hist'.filterCalls[Len(hist'.filterCalls)]} :
                 IF InvalidRange(a) THEN sheet' = sheet
                 ELSE /\ sheet'[1].auto_filter.some
                      /\ auto_filter_to_string(sheet'[1].auto_filter.v) = FilterRange(a)
                      /\ [sheet'[1] EXCEPT !.auto_filter = None]
                            = [sheet[1] EXCEPT !.auto_filter = None]]_vars
    /\ [](AutoFilterElements(write_data_end(sheet[1]))
            = ExpectedAutoFilter(hist.filterCalls))
    /\ []((hist.lastDoc.called /\ hist.lastDoc.ok) =>
            AutoFilterElements(LastPart) = ExpectedAutoFilter(hist.lastDoc.filters))

\* a sheet with a column and a merged range got the range A1:D21, then A1:A1
\* by a second valid call, then an invalid call (4,1,1,21), and was written:
\* the part holds the autofilter A1:A1
C30_Witness ==
    /\ hist.lastDoc.called /\ hist.lastDoc.ok
    /\ Len(hist.lastDoc.filters) = 3
    /\ hist.lastDoc.filters[1] = <<1, 4, 1, 21>>
    /\ hist.lastDoc.filters[2] = <<1, 1, 1, 1>>
    /\ hist.lastDoc.filters[3] = <<4, 1, 1, 21>>
    /\ AutoFilterElements(LastPart) = <<[el |-> "autoFilter", ref |-> "A1:A1"]>>

====
